---- MODULE Spec2Model ----
(***************************************************************************)
(* Event lifecycle and realtime routing of the SHYRA backend:              *)
(*   EventService   (services/event.service)   src/unnamed/part_002        *)
(*   SessionService (services/session.service) src/unnamed/part_003        *)
(*   BrainService   (services/brain.service)   src/unnamed/part_003        *)
(*   SocketManager  (sockets/socket.manager)   src/server/config/database.js*)
(*   event controller                src/server/controllers/event.controller.js*)
(*   cleanup interval (server entry)           src/unnamed/part_000        *)
(* Node runs every handler to completion between awaits, so one action is  *)
(* one synchronous stretch of a handler.                                   *)
(***************************************************************************)
EXTENDS Integers, Sequences, FiniteSets, TLC

VARIABLES
    events,          \* EventService.events: eventId -> event record
    eventHistory,    \* EventService.eventHistory: most recent first
    eventCount,      \* number of event ids issued so far (uuidv4 is fresh)
    sessions,        \* SessionService.sessions: sessionId -> session
    userSessions,    \* SessionService.userSessions: entityId -> Seq(sessionId)
    socketSessions,  \* SessionService.socketSessions: socketId -> sessionId
    sessionCount,    \* number of session ids issued so far
    sockets,         \* one record per connection attempt, indexed by socket.id
    connectedClients,\* SocketManager.connectedClients: socketId -> client info
    emitted,         \* socketId -> notices the server sent on that socket
    broadcasts,      \* io.to(room).emit calls, in order
    calls,           \* one record per processEvent invocation
    now              \* the clock read by new Date() / Date.now()

vars == <<events, eventHistory, eventCount, sessions, userSessions,
          socketSessions, sessionCount, sockets, connectedClients, emitted,
          broadcasts, calls, now>>

eventVars   == <<events, eventHistory, eventCount>>
sessionVars == <<sessions, userSessions, socketSessions, sessionCount>>
socketVars  == <<sockets, connectedClients, emitted, broadcasts>>

----------------------------------------------------------------------------
\* Bounds of the model.
MaxEvents   == 2    \* events created in one behaviour
MaxSockets  == 2    \* connection attempts in one behaviour
MaxTime     == 2    \* clock ticks in one behaviour
MaxApiCalls == 2    \* processEvent invocations made directly on the engine
MaxPings    == 1    \* pings answered in one behaviour
MaxBadSends == 1    \* rejected event:send messages in one behaviour
MaxSessions == 3    \* createSession calls made directly on the registry
MaxHandles  == 2    \* distinct connection handles passed to the registry
MaxBrainCalls == 1  \* processEventWithRetry calls made directly on the client
MaxRetryArg == 3    \* largest maxRetries argument passed by a direct call
MaxBurst    == 4    \* createEvent calls in a burst that outgrows the history
MaxBackoffArg == 8  \* largest maxRetries argument when the waits are studied
MaxOutlive  == 1    \* events submitted while sessions come and go
\* Scaled-down stand-ins for the two retention caps of EventService.
RetainCap   == 1    \* the 1000 of cleanup()
HistoryCap  == 2    \* maxHistorySize = 100

maxRetries     == 3        \* processEventWithRetry(event, maxRetries = 3)
BackoffBase    == 1000
BackoffCap     == 5000
SessionTimeout == 1        \* cleanupInactiveSessions default, in clock ticks

\* Values standing for JavaScript's undefined / null.
Undefined == "undefined"
Null      == "null"
NoTime    == -1
NoId      == 0

Put(f, k, v) == [x \in (DOMAIN f) \cup {k} |-> IF x = k THEN v ELSE f[x]]
Del(f, k)    == [x \in (DOMAIN f) \ {k} |-> f[x]]
Min(a, b)    == IF a < b THEN a ELSE b
EmptyMap     == [x \in {} |-> 0]

RECURSIVE Pow2(_)
Pow2(n) == IF n = 0 THEN 1 ELSE 2 * Pow2(n - 1)

----------------------------------------------------------------------------
\* EventService (src/unnamed/part_002)

\* Faulty variant: the entry is pushed at the tail before the trim.
addToHistory_Push(hist, event) ==
    LET historyEntry == [eventId |-> event.eventId, type |-> event.type,
                         source |-> event.source,
                         timestamp |-> event.timestamp,
                         status |-> event.status]
        h == Append(hist, historyEntry)
    IN IF Len(h) > HistoryCap THEN SubSeq(h, 1, HistoryCap) ELSE h

\* addToHistory: unshift a trimmed entry, keep the first maxHistorySize.
addToHistory(hist, event) ==
    LET historyEntry == [eventId |-> event.eventId, type |-> event.type,
                         source |-> event.source,
                         timestamp |-> event.timestamp,
                         status |-> event.status]
        h == <<historyEntry>> \o hist
    IN IF Len(h) > HistoryCap THEN SubSeq(h, 1, HistoryCap) ELSE h

\* The record built by createEvent; metadata.sessionId || null.  Of the
\* record's timestamps only `timestamp` is read by the code (in cleanup);
\* updatedAt, completedAt and failedAt are write-only and are left out.
NewEvent(id, type, source, data, createdBy, sessionId, t) ==
    [eventId |-> id, type |-> type, source |-> source, data |-> data,
     timestamp |-> t, sessionId |-> sessionId, status |-> "PENDING",
     createdBy |-> createdBy, response |-> Undefined, error |-> Undefined]

\* createEvent: insert into the registry and the history.
createEvent(evs, hist, id, type, source, data, createdBy, sessionId, t) ==
    LET event == NewEvent(id, type, source, data, createdBy, sessionId, t)
    IN [events |-> Put(evs, id, event),
        eventHistory |-> addToHistory(hist, event),
        event |-> event]

\* Faulty variant: the status update drops the record's payload.
updateEventStatus_DropsData(evs, eventId, status, t) ==
    IF eventId \in DOMAIN evs
    THEN [evs EXCEPT ![eventId].status = status, ![eventId].data = Undefined]
    ELSE evs

\* updateEventStatus: no-op when the id is not in the registry.
updateEventStatus(evs, eventId, status, t) ==
    IF eventId \in DOMAIN evs
    THEN [evs EXCEPT ![eventId].status = status]
    ELSE evs

NotFound == [eventId |-> NoId, status |-> "NOT_FOUND", error |-> Undefined]

\* getEventStatus: projection of the record, null if unknown.
getEventStatus(evs, eventId) ==
    IF eventId \notin DOMAIN evs THEN NotFound
    ELSE [eventId |-> evs[eventId].eventId, status |-> evs[eventId].status,
          error |-> evs[eventId].error]

\* Faulty variant: the view reports the status the registry record has now.
getHistory_CurrentStatus(hist, limit) ==
    [eventHistory |-> hist,
     result |-> [i \in 1..Min(limit, Len(hist)) |->
                    IF hist[i].eventId \in DOMAIN events
                    THEN [hist[i] EXCEPT
                            !.status = events[hist[i].eventId].status]
                    ELSE hist[i]]]

\* getHistory: eventHistory.slice(0, limit), a copy; the buffer is returned
\* along with the result to show what the call leaves behind.
getHistory(hist, limit) ==
    [eventHistory |-> hist, result |-> SubSeq(hist, 1, Min(limit, Len(hist)))]

\* EventService.getStats: the number of records and of records per status.
EventService_getStats(evs) ==
    LET count(status) ==
            Cardinality({e \in DOMAIN evs : evs[e].status = status})
    IN [total |-> Cardinality(DOMAIN evs), pending |-> count("PENDING"),
        processing |-> count("PROCESSING"), completed |-> count("COMPLETED"),
        failed |-> count("FAILED")]

\* Position of e in Array.from(events.entries()).sort(newest first).  The
\* sort is stable and a Map iterates in insertion order, which is the order
\* of the ids, so ties on timestamp keep the earlier-inserted record first.
SortedRank(evs, e) ==
    Cardinality({f \in DOMAIN evs :
                    \/ evs[f].timestamp > evs[e].timestamp
                    \/ evs[f].timestamp = evs[e].timestamp /\ f < e})

\* Faulty variant: the list is sorted oldest first, so the newest are deleted.
cleanup_KeepsOldest(evs) ==
    IF Cardinality(DOMAIN evs) > RetainCap
    THEN [e \in {x \in DOMAIN evs :
                    Cardinality({f \in DOMAIN evs :
                        \/ evs[f].timestamp < evs[x].timestamp
                        \/ evs[f].timestamp = evs[x].timestamp /\ f < x})
                      < RetainCap} |-> evs[e]]
    ELSE evs

\* cleanup: delete everything after the first RetainCap of the sorted list.
cleanup(evs) ==
    IF Cardinality(DOMAIN evs) > RetainCap
    THEN [e \in {x \in DOMAIN evs : SortedRank(evs, x) < RetainCap} |-> evs[e]]
    ELSE evs

TypeErrorMsg == "TypeError: cannot set properties of undefined"

\* Faulty variant: the in-flight status is written under another name.
processEventStart_Running(evs, eventId, t) ==
    updateEventStatus(evs, eventId, "RUNNING", t)

\* The part of EventService.processEvent before its await.
processEventStart(evs, eventId, t) ==
    updateEventStatus(evs, eventId, "PROCESSING", t)

\* Faulty variant: a failed event is put back to PENDING for another try.
processEventSettle_Requeue(evs, eventId, ok, brainData, err, t) ==
    IF ok
    THEN [events |-> [updateEventStatus(evs, eventId, "COMPLETED", t)
                        EXCEPT ![eventId].response = brainData],
          settled |-> "resolved", response |-> brainData, error |-> Undefined]
    ELSE [events |-> [updateEventStatus(evs, eventId, "PENDING", t)
                        EXCEPT ![eventId].error = err],
          settled |-> "rejected", response |-> Undefined, error |-> err]

\* Faulty variant: the catch block marks the event FAILED but does not store
\* the error message.
processEventSettle_NoError(evs, eventId, ok, brainData, err, t) ==
    IF ok
    THEN [events |-> [updateEventStatus(evs, eventId, "COMPLETED", t)
                        EXCEPT ![eventId].response = brainData],
          settled |-> "resolved", response |-> brainData, error |-> Undefined]
    ELSE [events |-> updateEventStatus(evs, eventId, "FAILED", t),
          settled |-> "rejected", response |-> Undefined, error |-> err]

\* Faulty variant: a missing record is tolerated, and the call settles as
\* the engine did.
processEventSettle_SkipsMissing(evs, eventId, ok, brainData, err, t) ==
    IF ok
    THEN LET e1 == updateEventStatus(evs, eventId, "COMPLETED", t)
         IN [events |-> IF eventId \in DOMAIN e1
                        THEN [e1 EXCEPT ![eventId].response = brainData]
                        ELSE e1,
             settled |-> "resolved", response |-> brainData,
             error |-> Undefined]
    ELSE LET e1 == updateEventStatus(evs, eventId, "FAILED", t)
         IN [events |-> IF eventId \in DOMAIN e1
                        THEN [e1 EXCEPT ![eventId].error = err]
                        ELSE e1,
             settled |-> "rejected", response |-> Undefined, error |-> err]

\* Faulty variant: a call that finds the record already COMPLETED or FAILED
\* leaves it as the earlier call wrote it.
processEventSettle_FirstWins(evs, eventId, ok, brainData, err, t) ==
    IF eventId \in DOMAIN evs /\ evs[eventId].status \in {"COMPLETED", "FAILED"}
    THEN [events |-> evs,
          settled |-> IF ok THEN "resolved" ELSE "rejected",
          response |-> IF ok THEN brainData ELSE Undefined,
          error |-> IF ok THEN Undefined ELSE err]
    ELSE IF ok
    THEN LET e1 == updateEventStatus(evs, eventId, "COMPLETED", t)
         IN IF eventId \in DOMAIN e1
            THEN [events |-> [e1 EXCEPT ![eventId].response = brainData],
                  settled |-> "resolved", response |-> brainData,
                  error |-> Undefined]
            ELSE [events |-> e1, settled |-> "rejected",
                  response |-> Undefined, error |-> TypeErrorMsg]
    ELSE LET e1 == updateEventStatus(evs, eventId, "FAILED", t)
         IN IF eventId \in DOMAIN e1
            THEN [events |-> [e1 EXCEPT ![eventId].error = err],
                  settled |-> "rejected", response |-> Undefined,
                  error |-> err]
            ELSE [events |-> e1, settled |-> "rejected",
                  response |-> Undefined, error |-> TypeErrorMsg]

\* The part of EventService.processEvent after processEventWithRetry has
\* settled.  ok: the retry cycle returned brainData; otherwise it threw err.
\* events.get(eventId) is undefined for a purged record, and then the
\* assignment to eventData.response (or .error) throws a TypeError; the one
\* thrown in the try block is caught by the catch block, whose own
\* assignment throws again.
processEventSettle(evs, eventId, ok, brainData, err, t) ==
    IF ok
    THEN LET e1 == updateEventStatus(evs, eventId, "COMPLETED", t)
         IN IF eventId \in DOMAIN e1
            THEN [events |-> [e1 EXCEPT ![eventId].response = brainData],
                  settled |-> "resolved", response |-> brainData,
                  error |-> Undefined]
            ELSE [events |-> updateEventStatus(e1, eventId, "FAILED", t),
                  settled |-> "rejected", response |-> Undefined,
                  error |-> TypeErrorMsg]
    ELSE LET e1 == updateEventStatus(evs, eventId, "FAILED", t)
         IN IF eventId \in DOMAIN e1
            THEN [events |-> [e1 EXCEPT ![eventId].error = err],
                  settled |-> "rejected", response |-> Undefined,
                  error |-> err]
            ELSE [events |-> e1, settled |-> "rejected",
                  response |-> Undefined, error |-> TypeErrorMsg]

----------------------------------------------------------------------------
\* SessionService (src/unnamed/part_003, lines 1-165).  The three indices
\* travel together as one record [sessions, userSessions, socketSessions].

NullSession == [sessionId |-> NoId, entityId |-> Null, entityType |-> Null,
                socketId |-> NoId, lastActivity |-> NoTime]

\* Faulty variant: the by-connection index is not written.
createSession_NoSocketIndex(reg, sessionId, entityId, entityType, socketId, t) ==
    LET session == [sessionId |-> sessionId, entityId |-> entityId,
                    entityType |-> entityType, socketId |-> socketId,
                    lastActivity |-> t]
        list == IF entityId \in DOMAIN reg.userSessions
                THEN reg.userSessions[entityId] ELSE <<>>
    IN [sessions |-> Put(reg.sessions, sessionId, session),
        socketSessions |-> reg.socketSessions,
        userSessions |-> Put(reg.userSessions, entityId,
                             Append(list, sessionId))]

\* createSession: index the new session three ways.
createSession(reg, sessionId, entityId, entityType, socketId, t) ==
    LET session == [sessionId |-> sessionId, entityId |-> entityId,
                    entityType |-> entityType, socketId |-> socketId,
                    lastActivity |-> t]
        list == IF entityId \in DOMAIN reg.userSessions
                THEN reg.userSessions[entityId] ELSE <<>>
    IN [sessions |-> Put(reg.sessions, sessionId, session),
        socketSessions |-> Put(reg.socketSessions, socketId, sessionId),
        userSessions |-> Put(reg.userSessions, entityId,
                             Append(list, sessionId))]

getSession(reg, sessionId) ==
    IF sessionId \in DOMAIN reg.sessions THEN reg.sessions[sessionId]
    ELSE NullSession

getSessionBySocketId(reg, socketId) ==
    IF socketId \in DOMAIN reg.socketSessions
    THEN getSession(reg, reg.socketSessions[socketId])
    ELSE NullSession

\* getSessionsForEntity: the entity's list (or []), each id looked up in
\* sessions, the misses filtered out.
getSessionsForEntity(reg, entityId) ==
    LET sessionIds == IF entityId \in DOMAIN reg.userSessions
                      THEN reg.userSessions[entityId] ELSE <<>>
        found == SelectSeq(sessionIds, LAMBDA id : id \in DOMAIN reg.sessions)
    IN [i \in 1..Len(found) |-> reg.sessions[found[i]]]

\* Faulty variant: an unknown id gets a fresh entry instead of being skipped.
updateActivity_Upsert(reg, sessionId, t) ==
    [reg EXCEPT !.sessions =
        Put(@, sessionId,
            IF sessionId \in DOMAIN reg.sessions
            THEN [reg.sessions[sessionId] EXCEPT !.lastActivity = t]
            ELSE [NullSession EXCEPT !.sessionId = sessionId,
                                     !.lastActivity = t])]

\* updateActivity: refresh lastActivity, no-op for an unknown id.
updateActivity(reg, sessionId, t) ==
    IF sessionId \in DOMAIN reg.sessions
    THEN [reg EXCEPT !.sessions[sessionId].lastActivity = t]
    ELSE reg

\* indexOf + splice(index, 1): remove the first occurrence.
RECURSIVE RemoveFirst(_, _)
RemoveFirst(s, v) ==
    IF s = <<>> THEN <<>>
    ELSE IF Head(s) = v THEN Tail(s)
         ELSE <<Head(s)>> \o RemoveFirst(Tail(s), v)

\* Faulty variant: an emptied entity list stays in userSessions.
endSession_KeepEmptyList(reg, sessionId) ==
    IF sessionId \notin DOMAIN reg.sessions THEN reg
    ELSE LET session == reg.sessions[sessionId]
             us == IF session.entityId \in DOMAIN reg.userSessions
                   THEN Put(reg.userSessions, session.entityId,
                            RemoveFirst(reg.userSessions[session.entityId],
                                        sessionId))
                   ELSE reg.userSessions
         IN [sessions |-> Del(reg.sessions, sessionId),
             socketSessions |-> Del(reg.socketSessions, session.socketId),
             userSessions |-> us]

\* endSession: remove from all three maps; drop an emptied entity list.
endSession(reg, sessionId) ==
    IF sessionId \notin DOMAIN reg.sessions THEN reg
    ELSE LET session == reg.sessions[sessionId]
             us == IF session.entityId \in DOMAIN reg.userSessions
                   THEN LET l == RemoveFirst(reg.userSessions[session.entityId],
                                             sessionId)
                        IN IF Len(l) = 0
                           THEN Del(reg.userSessions, session.entityId)
                           ELSE Put(reg.userSessions, session.entityId, l)
                   ELSE reg.userSessions
         IN [sessions |-> Del(reg.sessions, sessionId),
             socketSessions |-> Del(reg.socketSessions, session.socketId),
             userSessions |-> us]

\* Faulty variant: the handle itself is taken for the session id.
endSessionBySocketId_ById(reg, socketId) == endSession(reg, socketId)

endSessionBySocketId(reg, socketId) ==
    IF socketId \in DOMAIN reg.socketSessions
    THEN endSession(reg, reg.socketSessions[socketId])
    ELSE reg

RECURSIVE EndAll(_, _)
EndAll(reg, ids) ==
    IF ids = {} THEN reg
    ELSE LET id == CHOOSE x \in ids : TRUE
         IN EndAll(endSession(reg, id), ids \ {id})

\* Faulty variant: a session exactly timeoutMs old is ended as well.
cleanupInactiveSessions_AtLeast(reg, timeoutMs, t) ==
    EndAll(reg, {id \in DOMAIN reg.sessions :
                    t - reg.sessions[id].lastActivity >= timeoutMs})

\* cleanupInactiveSessions: end every session with now - lastActivity > timeout.
cleanupInactiveSessions(reg, timeoutMs, t) ==
    EndAll(reg, {id \in DOMAIN reg.sessions :
                    t - reg.sessions[id].lastActivity > timeoutMs})

\* Array.from(map.keys()): a Map iterates in insertion order, which is the
\* order of the ids.
RECURSIVE InsertionOrder(_)
InsertionOrder(ids) ==
    IF ids = {} THEN <<>>
    ELSE LET first == CHOOSE x \in ids : \A y \in ids : x <= y
         IN <<first>> \o InsertionOrder(ids \ {first})

\* SessionService.getStats: sizes of sessions and userSessions and a
\* projection of every session.
SessionService_getStats(reg) ==
    LET order == InsertionOrder(DOMAIN reg.sessions)
    IN [totalSessions |-> Cardinality(DOMAIN reg.sessions),
        uniqueEntities |-> Cardinality(DOMAIN reg.userSessions),
        sessions |-> [i \in 1..Len(order) |->
            [sessionId |-> reg.sessions[order[i]].sessionId,
             entityId |-> reg.sessions[order[i]].entityId,
             entityType |-> reg.sessions[order[i]].entityType,
             lastActivity |-> reg.sessions[order[i]].lastActivity]]]

Registry == [sessions |-> sessions, userSessions |-> userSessions,
             socketSessions |-> socketSessions]

SetRegistry(reg) ==
    /\ sessions' = reg.sessions
    /\ userSessions' = reg.userSessions
    /\ socketSessions' = reg.socketSessions

----------------------------------------------------------------------------
\* BrainService (src/unnamed/part_003, lines 167-323)

\* What one request to the engine can come to.
EngineOutcomes == {"ok", "ECONNREFUSED", "ETIMEDOUT", "ECONNABORTED",
                   "response", "other"}
BrainData == "brain-data"

\* BrainService.processEvent's catch: the message of the BrainConnectionError.
ClassifyError(outcome) ==
    IF outcome = "ECONNREFUSED" THEN "Cannot connect to Brain"
    ELSE IF outcome \in {"ETIMEDOUT", "ECONNABORTED"}
         THEN "Brain request timed out"
    ELSE IF outcome = "response" THEN "Brain error (status)"
    ELSE "Brain communication failed"

\* Faulty variant: the delay doubles without the cap.
BackoffDelay_Uncapped(attempt) == BackoffBase * Pow2(attempt - 1)

\* Math.min(1000 * Math.pow(2, attempt - 1), 5000)
BackoffDelay(attempt) == Min(BackoffBase * Pow2(attempt - 1), BackoffCap)

\* Faulty variant: a success before the last attempt is retried as well.
RetryStep_NoEarlyReturn(attempt, outcome, limit) ==
    IF outcome = "ok" /\ attempt >= limit THEN [next |-> "return", delay |-> 0]
    ELSE IF attempt < limit
         THEN [next |-> "sleep", delay |-> BackoffDelay(attempt)]
         ELSE [next |-> "throw", delay |-> 0]

\* Faulty variant: the loop gives up one attempt early.
RetryStep_OffByOne(attempt, outcome, limit) ==
    IF outcome = "ok" THEN [next |-> "return", delay |-> 0]
    ELSE IF attempt + 1 < limit
         THEN [next |-> "sleep", delay |-> BackoffDelay(attempt)]
         ELSE [next |-> "throw", delay |-> 0]

\* One turn of processEventWithRetry's loop, after attempt `attempt` ended in
\* `outcome`: return, sleep before the next attempt, or throw lastError.
RetryStep(attempt, outcome, limit) ==
    IF outcome = "ok" THEN [next |-> "return", delay |-> 0]
    ELSE IF attempt < limit
         THEN [next |-> "sleep", delay |-> BackoffDelay(attempt)]
         ELSE [next |-> "throw", delay |-> 0]

----------------------------------------------------------------------------
\* SocketManager (src/server/config/database.js, lines 162-414)

\* The identities the auth service signs tokens for (type USER or DEVICE).
Identities == {[id |-> "u1", type |-> "USER"], [id |-> "d1", type |-> "DEVICE"]}
NoAuth     == [id |-> Null, type |-> Null]
NoToken    == [sig |-> "none", id |-> Null, type |-> Null]
\* A handshake carries no token, or a token whose signature jwt.verify
\* accepts ("valid") or refuses ("invalid": forged or expired).
Tokens == {NoToken, [sig |-> "invalid", id |-> "u1", type |-> "USER"]} \cup
          {[sig |-> "valid", id |-> i.id, type |-> i.type] : i \in Identities}

\* Faulty variant: the token is decoded without verifying its signature.
authenticationMiddleware_Decode(token) ==
    IF token.sig = "none"
    THEN [ok |-> FALSE, error |-> "Authentication token required",
          auth |-> NoAuth]
    ELSE [ok |-> TRUE, error |-> Undefined,
          auth |-> [id |-> token.id, type |-> token.type]]

\* authenticationMiddleware: next() or next(new Error(...)).
authenticationMiddleware(token) ==
    IF token.sig = "none"
    THEN [ok |-> FALSE, error |-> "Authentication token required",
          auth |-> NoAuth]
    ELSE IF token.sig = "valid"
         THEN [ok |-> TRUE, error |-> Undefined,
               auth |-> [id |-> token.id, type |-> token.type]]
         ELSE [ok |-> FALSE, error |-> "Authentication failed",
               auth |-> NoAuth]

\* socket.join(`${socket.auth.type}:${socket.auth.id}`)
\* Faulty variant: the room is named after the entity type alone.
EntityRoom_TypeOnly(auth) == auth.type

EntityRoom(auth) == auth.type \o ":" \o auth.id
\* Every socket is in the room named by its own id.
OwnRoom(s) == ToString(s)

Notice(name, eventId, sessionId, status, response, error, call) ==
    [name |-> name, eventId |-> eventId, sessionId |-> sessionId,
     status |-> status, response |-> response, error |-> error,
     call |-> call]

\* The connected sockets that are in `room`: the targets of io.to(room).emit.
RoomMembers(socks, room) ==
    {s \in DOMAIN socks : socks[s].connected /\ room \in socks[s].rooms}

\* Faulty variant: the response goes to the submitter's own kind.
BroadcastRooms_OwnType(authType) ==
    (IF authType = "DEVICE" THEN <<"DEVICE">> ELSE <<>>) \o
    (IF authType = "USER" THEN <<"USER">> ELSE <<>>)

\* The rooms handleEventSend broadcasts a completed event's response to:
\* broadcastToUsers for a DEVICE submitter, broadcastToDevices for a USER.
BroadcastRooms(authType) ==
    (IF authType = "DEVICE" THEN <<"USER">> ELSE <<>>) \o
    (IF authType = "USER" THEN <<"DEVICE">> ELSE <<>>)

\* Payloads of an event:send message.  A field is undefined when missing;
\* the message itself may carry no payload at all.
PayloadValues(v) == {Undefined, v}
NoPayload == [type |-> Null, source |-> Null, eventData |-> Null]
Payloads  == {NoPayload} \cup
             [type : PayloadValues("chat"), source : PayloadValues("dev1"),
              eventData : PayloadValues("query")]

Falsy(v) == v \in {Undefined, Null, ""}

\* Faulty variant: eventData is not checked.
PayloadRejected_NoData(data) == Falsy(data.type) \/ Falsy(data.source)

\* if (!type || !source || !eventData)
PayloadRejected(data) ==
    Falsy(data.type) \/ Falsy(data.source) \/ Falsy(data.eventData)

InvalidPayloadMsg == "Invalid event payload. Required: type, source, eventData"
DestructureErrorMsg == "TypeError: cannot destructure"

NoReply == [sent |-> FALSE, success |-> FALSE, eventId |-> NoId,
            status |-> Undefined, response |-> Undefined, error |-> Undefined]

\* One processEvent invocation and the handler that awaits it.
NewCall(eventId, origin, socket, auth) ==
    [eventId |-> eventId, origin |-> origin, socket |-> socket,
     auth |-> auth, pc |-> "attempt", attempt |-> 1, attempts |-> 1,
     lastError |-> Undefined, waits |-> <<>>, settled |-> "no",
     response |-> Undefined, error |-> Undefined,
     statusAtSettle |-> NotFound, connectedAtSettle |-> {},
     reply |-> NoReply, chat |-> "none"]

\* The notices handleEventSend emits before it awaits processEvent.
AckNotices(eventId, call) ==
    << Notice("event:received", eventId, NoId, "PENDING", Undefined,
              Undefined, call),
       Notice("event:processing", eventId, NoId, Undefined, Undefined,
              Undefined, call) >>

\* Faulty variant: event:failed is emitted after event:completed as well.
TerminalNotices_Both(settle, eventId, call) ==
    (IF settle.settled = "resolved"
     THEN << Notice("event:completed", eventId, NoId, Undefined,
                    settle.response, Undefined, call) >>
     ELSE <<>>) \o
    << Notice("event:failed", NoId, NoId, Undefined, Undefined,
              settle.error, call) >>

\* The notice handleEventSend emits to the submitter once processEvent has
\* settled: event:completed after the await, event:failed from the catch.
TerminalNotices(settle, eventId, call) ==
    IF settle.settled = "resolved"
    THEN << Notice("event:completed", eventId, NoId, Undefined,
                   settle.response, Undefined, call) >>
    ELSE << Notice("event:failed", NoId, NoId, Undefined, Undefined,
                   settle.error, call) >>

----------------------------------------------------------------------------
Init ==
    /\ events = EmptyMap
    /\ eventHistory = <<>>
    /\ eventCount = 0
    /\ sessions = EmptyMap
    /\ userSessions = EmptyMap
    /\ socketSessions = EmptyMap
    /\ sessionCount = 0
    /\ sockets = <<>>
    /\ connectedClients = EmptyMap
    /\ emitted = <<>>
    /\ broadcasts = <<>>
    /\ calls = <<>>
    /\ now = 0

\* A connection attempt: io.use(authenticationMiddleware), and for an
\* accepted handshake handleConnection (which registers the handlers).
Connect(token) ==
    /\ Len(sockets) < MaxSockets
    /\ LET s  == Len(sockets) + 1
           mw == authenticationMiddleware(token)
       IN IF mw.ok
          THEN LET sid == sessionCount + 1
                   reg == createSession(Registry, sid, mw.auth.id,
                                        mw.auth.type, s, now)
               IN /\ SetRegistry(reg)
                  /\ sessionCount' = sid
                  /\ connectedClients' =
                        Put(connectedClients, s,
                            [sessionId |-> sid, entityId |-> mw.auth.id,
                             entityType |-> mw.auth.type])
                  /\ emitted' = Append(emitted,
                        << Notice("auth:success", NoId, sid, Undefined,
                                  Undefined, Undefined, NoId) >>)
                  /\ sockets' = Append(sockets,
                        [token |-> token, auth |-> mw.auth,
                         accepted |-> TRUE, connected |-> TRUE,
                         rooms |-> {OwnRoom(s), EntityRoom(mw.auth)},
                         handlers |-> {"event:send", "ping", "disconnect"}])
          ELSE /\ sockets' = Append(sockets,
                        [token |-> token, auth |-> NoAuth,
                         accepted |-> FALSE, connected |-> FALSE,
                         rooms |-> {}, handlers |-> {}])
               /\ emitted' = Append(emitted, <<>>)
               /\ UNCHANGED <<sessionVars, connectedClients>>
    /\ UNCHANGED <<eventVars, broadcasts, calls, now>>

CountNotices(seq, name) ==
    Cardinality({i \in 1..Len(seq) : seq[i].name = name})

\* event:failed notices that answer a rejected event:send message.
CountRejected(seq) ==
    Cardinality({i \in 1..Len(seq) :
                    seq[i].name = "event:failed" /\ seq[i].call = NoId})

RECURSIVE SumOver(_, _)
SumOver(seq, i) == IF i = 0 THEN 0 ELSE seq[i] + SumOver(seq, i - 1)
TotalPongs ==
    SumOver([i \in 1..Len(emitted) |-> CountNotices(emitted[i], "pong")],
            Len(emitted))
TotalRejected ==
    SumOver([i \in 1..Len(emitted) |-> CountRejected(emitted[i])],
            Len(emitted))

\* The ping handler: pong, then refresh the session's activity.
Ping(s) ==
    /\ s \in 1..Len(sockets)
    /\ sockets[s].connected
    /\ "ping" \in sockets[s].handlers
    /\ TotalPongs < MaxPings
    /\ emitted' = [emitted EXCEPT ![s] = Append(@,
            Notice("pong", NoId, NoId, Undefined, Undefined, Undefined, NoId))]
    /\ LET session == getSessionBySocketId(Registry, s)
       IN IF session.sessionId # NoId
          THEN SetRegistry(updateActivity(Registry, session.sessionId, now))
          ELSE UNCHANGED <<sessions, userSessions, socketSessions>>
    /\ UNCHANGED <<eventVars, sessionCount, sockets, connectedClients,
                   broadcasts, calls>>
    /\ UNCHANGED now

\* Faulty variant: a submission from a connection without a session is
\* refused with event:failed.
EventSend_RequiresSession(s, data) ==
    /\ s \in 1..Len(sockets)
    /\ sockets[s].connected
    /\ "event:send" \in sockets[s].handlers
    /\ IF data = NoPayload
       THEN /\ TotalRejected < MaxBadSends
            /\ emitted' = [emitted EXCEPT ![s] = Append(@,
                    Notice("event:failed", NoId, NoId, Undefined, Undefined,
                           DestructureErrorMsg, NoId))]
            /\ UNCHANGED <<eventVars, calls>>
       ELSE IF PayloadRejected(data)
       THEN /\ TotalRejected < MaxBadSends
            /\ emitted' = [emitted EXCEPT ![s] = Append(@,
                    Notice("event:failed", NoId, NoId, Undefined, Undefined,
                           InvalidPayloadMsg, NoId))]
            /\ UNCHANGED <<eventVars, calls>>
       ELSE IF getSessionBySocketId(Registry, s).sessionId = NoId
       THEN /\ emitted' = [emitted EXCEPT ![s] = Append(@,
                    Notice("event:failed", NoId, NoId, Undefined, Undefined,
                           "No active session", NoId))]
            /\ UNCHANGED <<eventVars, calls>>
       ELSE /\ eventCount < MaxEvents
            /\ LET session == getSessionBySocketId(Registry, s)
                   id == eventCount + 1
                   c  == Len(calls) + 1
                   ce == createEvent(events, eventHistory, id, data.type,
                                     data.source, data.eventData,
                                     sockets[s].auth.id, session.sessionId,
                                     now)
               IN /\ eventCount' = id
                  /\ eventHistory' = ce.eventHistory
                  /\ events' = processEventStart(ce.events, id, now)
                  /\ emitted' = [emitted EXCEPT ![s] = @ \o AckNotices(id, c)]
                  /\ calls' = Append(calls,
                        NewCall(id, "socket", s, sockets[s].auth))
    /\ UNCHANGED <<sessionVars, sockets, connectedClients, broadcasts, now>>

\* handleEventSend up to its await (or to its early return).
EventSend(s, data) ==
    /\ s \in 1..Len(sockets)
    /\ sockets[s].connected
    /\ "event:send" \in sockets[s].handlers
    /\ IF data = NoPayload
       THEN \* destructuring a missing payload throws; the catch reports it
            /\ TotalRejected < MaxBadSends
            /\ emitted' = [emitted EXCEPT ![s] = Append(@,
                    Notice("event:failed", NoId, NoId, Undefined, Undefined,
                           DestructureErrorMsg, NoId))]
            /\ UNCHANGED <<eventVars, calls>>
       ELSE IF PayloadRejected(data)
       THEN /\ TotalRejected < MaxBadSends
            /\ emitted' = [emitted EXCEPT ![s] = Append(@,
                    Notice("event:failed", NoId, NoId, Undefined, Undefined,
                           InvalidPayloadMsg, NoId))]
            /\ UNCHANGED <<eventVars, calls>>
       ELSE /\ eventCount < MaxEvents
            /\ LET session == getSessionBySocketId(Registry, s)
                   id == eventCount + 1
                   c  == Len(calls) + 1
                   ce == createEvent(events, eventHistory, id, data.type,
                                     data.source, data.eventData,
                                     sockets[s].auth.id, session.sessionId,
                                     now)
               IN /\ eventCount' = id
                  /\ eventHistory' = ce.eventHistory
                  /\ events' = processEventStart(ce.events, id, now)
                  /\ emitted' = [emitted EXCEPT ![s] = @ \o AckNotices(id, c)]
                  /\ calls' = Append(calls,
                        NewCall(id, "socket", s, sockets[s].auth))
    /\ UNCHANGED <<sessionVars, sockets, connectedClients, broadcasts, now>>

\* Faulty variant: only the connectedClients entry is removed.
handleDisconnection_ClientsOnly(reg, clients, socketId) ==
    [reg |-> reg, connectedClients |-> Del(clients, socketId)]

\* handleDisconnection: end the session of the socket, if it still has one,
\* then delete the socket's connectedClients entry.
handleDisconnection(reg, clients, socketId) ==
    [reg |-> endSessionBySocketId(reg, socketId),
     connectedClients |-> Del(clients, socketId)]

\* Faulty variant: the events submitted under the ended session are deleted
\* from the registry and the history along with it.
Disconnect_DropsEvents(s) ==
    /\ s \in 1..Len(sockets)
    /\ sockets[s].connected
    /\ "disconnect" \in sockets[s].handlers
    /\ LET after == handleDisconnection(Registry, connectedClients, s)
           gone  == DOMAIN sessions \ DOMAIN after.reg.sessions
       IN /\ SetRegistry(after.reg)
          /\ connectedClients' = after.connectedClients
          /\ events' = [e \in {x \in DOMAIN events :
                                  events[x].sessionId \notin gone} |-> events[e]]
          /\ eventHistory' = SelectSeq(eventHistory,
                                 LAMBDA h : h.eventId \in DOMAIN events')
    /\ sockets' = [sockets EXCEPT ![s].connected = FALSE, ![s].rooms = {}]
    /\ UNCHANGED <<eventCount, sessionCount, emitted, broadcasts, calls, now>>

\* The disconnect handler, and the socket leaving its rooms.
Disconnect(s) ==
    /\ s \in 1..Len(sockets)
    /\ sockets[s].connected
    /\ "disconnect" \in sockets[s].handlers
    /\ LET after == handleDisconnection(Registry, connectedClients, s)
       IN /\ SetRegistry(after.reg)
          /\ connectedClients' = after.connectedClients
    /\ sockets' = [sockets EXCEPT ![s].connected = FALSE, ![s].rooms = {}]
    /\ UNCHANGED <<eventVars, sessionCount, emitted, broadcasts, calls, now>>

\* io.to(room).emit(name, data): one broadcast record, and one notice on
\* every socket that is in the room.
Emit(em, recipients, notice) ==
    [i \in 1..Len(em) |->
        IF i \in recipients THEN Append(em[i], notice) ELSE em[i]]

RECURSIVE BroadcastAll(_, _, _, _)
BroadcastAll(out, rooms, socks, notice) ==
    IF rooms = <<>> THEN out
    ELSE LET room == Head(rooms)
             to   == RoomMembers(socks, room)
         IN BroadcastAll(
                [emitted |-> Emit(out.emitted, to, notice),
                 broadcasts |-> Append(out.broadcasts,
                    [room |-> room, name |-> notice.name,
                     eventId |-> notice.eventId, response |-> notice.response,
                     call |-> notice.call, recipients |-> to])],
                Tail(rooms), socks, notice)

\* handleEventSend after its await: the terminal notice to the submitter and,
\* for a completed event, the cross-entity brain:response broadcast.
AfterProcessEvent(c, settle) ==
    LET call == calls[c]
        em1  == [emitted EXCEPT ![call.socket] =
                    @ \o TerminalNotices(settle, call.eventId, c)]
        out  == IF settle.settled = "resolved"
                THEN BroadcastAll([emitted |-> em1, broadcasts |-> broadcasts],
                        BroadcastRooms(call.auth.type), sockets,
                        Notice("brain:response", call.eventId, NoId,
                               Undefined, settle.response, Undefined, c))
                ELSE [emitted |-> em1, broadcasts |-> broadcasts]
    IN /\ emitted' = out.emitted
       /\ broadcasts' = out.broadcasts

\* The HTTP response of sendEventSync (res.json / next(error)).
SyncReply(call, settled, response, error) ==
    IF settled = "resolved"
    THEN [sent |-> TRUE, success |-> TRUE, eventId |-> call.eventId,
          status |-> "COMPLETED", response |-> response, error |-> Undefined]
    ELSE [sent |-> TRUE, success |-> FALSE, eventId |-> NoId,
          status |-> Undefined, response |-> Undefined, error |-> error]

\* sendEventSync saves the transcript only for a USER with a response.
SavesChat(call, settle) ==
    settle.settled = "resolved" /\ call.auth.type = "USER"
        /\ ~Falsy(settle.response)

\* Faulty variant: sendEvent drops its .catch, so a rejection of the detached
\* processEvent call is handled by nobody.
AfterSettle_NoCatch(call, settle) ==
    IF call.origin = "async" /\ settle.settled = "rejected" THEN "unhandled"
    ELSE IF call.origin = "sync" /\ SavesChat(call, settle) THEN "saving"
    ELSE "done"

\* Where the caller of processEvent goes on once the promise has settled:
\* sendEventSync into the transcript saving or to its response, sendEvent's
\* .catch and the try/catch of the other callers to their end.
AfterSettle(call, settle) ==
    IF call.origin = "sync" /\ SavesChat(call, settle) THEN "saving"
    ELSE "done"

\* One request to the engine comes back.  BrainService.processEvent classifies
\* a failure, processEventWithRetry sleeps or gives up, and when it settles
\* EventService.processEvent and the awaiting handler run on.
EngineReply(c, outcome) ==
    /\ c \in 1..Len(calls)
    /\ calls[c].pc = "attempt"
    /\ LET call == calls[c]
           step == RetryStep(call.attempt, outcome, maxRetries)
           err  == ClassifyError(outcome)
       IN IF step.next = "sleep"
          THEN /\ calls' = [calls EXCEPT ![c].pc = "sleep",
                                         ![c].lastError = err,
                                         ![c].waits = Append(@, step.delay)]
               /\ UNCHANGED <<events, emitted, broadcasts>>
          ELSE LET settle == processEventSettle(events, call.eventId,
                                 step.next = "return", BrainData, err, now)
                   saving == call.origin = "sync" /\ SavesChat(call, settle)
                   done == [call EXCEPT
                       !.pc = AfterSettle(call, settle),
                       !.lastError = IF step.next = "throw" THEN err ELSE @,
                       !.settled = settle.settled,
                       !.response = settle.response,
                       !.error = settle.error,
                       !.statusAtSettle =
                            getEventStatus(settle.events, call.eventId),
                       !.connectedAtSettle =
                            {x \in DOMAIN sockets : sockets[x].connected},
                       !.reply = IF call.origin = "sync" /\ ~saving
                                 THEN SyncReply(call, settle.settled,
                                          settle.response, settle.error)
                                 ELSE @]
               IN /\ events' = settle.events
                  /\ calls' = [calls EXCEPT ![c] = done]
                  /\ IF call.origin = "socket"
                     THEN AfterProcessEvent(c, settle)
                     ELSE UNCHANGED <<emitted, broadcasts>>
    /\ UNCHANGED <<eventHistory, eventCount, sessionVars, sockets,
                   connectedClients, now>>

\* The sleep between two attempts ends.
Wake(c) ==
    /\ c \in 1..Len(calls)
    /\ calls[c].pc = "sleep"
    /\ calls' = [calls EXCEPT ![c].pc = "attempt", ![c].attempt = @ + 1,
                              ![c].attempts = @ + 1]
    /\ UNCHANGED <<eventVars, sessionVars, socketVars, now>>

\* Faulty variant: a failure of the store is passed on to next(error).
ChatSaved_FailsRequest(c, stored) ==
    /\ c \in 1..Len(calls)
    /\ calls[c].pc = "saving"
    /\ stored \in BOOLEAN
    /\ calls' = [calls EXCEPT ![c].pc = "done",
                    ![c].chat = IF stored THEN "saved" ELSE "failed",
                    ![c].reply =
                        IF stored
                        THEN SyncReply(calls[c], "resolved",
                                       calls[c].response, Undefined)
                        ELSE SyncReply(calls[c], "rejected", Undefined,
                                       "Failed to save chat history")]
    /\ UNCHANGED <<eventVars, sessionVars, socketVars, now>>

\* sendEventSync: the durable store answers (or throws, which is caught and
\* logged); then the success response is sent.
ChatSaved(c, stored) ==
    /\ c \in 1..Len(calls)
    /\ calls[c].pc = "saving"
    /\ stored \in BOOLEAN
    /\ calls' = [calls EXCEPT ![c].pc = "done",
                    ![c].chat = IF stored THEN "saved" ELSE "failed",
                    ![c].reply = SyncReply(calls[c], "resolved",
                                           calls[c].response, Undefined)]
    /\ UNCHANGED <<eventVars, sessionVars, socketVars, now>>

\* The body of a validated POST /api/events or /api/events/sync request.
HttpBody == [type |-> "chat", source |-> "app", data |-> "query",
             sessionId |-> NoId]

\* Faulty variant: processEvent is started twice on the created event.
SendEvent_Twice(auth) ==
    /\ eventCount < MaxEvents
    /\ LET id == eventCount + 1
           ce == createEvent(events, eventHistory, id, HttpBody.type,
                             HttpBody.source, HttpBody.data, auth.id,
                             HttpBody.sessionId, now)
           started == processEventStart(ce.events, id, now)
           call == [NewCall(id, "async", NoId, auth) EXCEPT
                    !.reply = [sent |-> TRUE, success |-> TRUE,
                               eventId |-> id, status |-> started[id].status,
                               response |-> Undefined, error |-> Undefined]]
       IN /\ eventCount' = id
          /\ eventHistory' = ce.eventHistory
          /\ events' = started
          /\ calls' = calls \o <<call, call>>
    /\ UNCHANGED <<sessionVars, socketVars, now>>

\* sendEvent (POST /api/events): create, start processing detached, respond
\* 202 with event.status read from the record.
SendEvent(auth) ==
    /\ eventCount < MaxEvents
    /\ LET id == eventCount + 1
           ce == createEvent(events, eventHistory, id, HttpBody.type,
                             HttpBody.source, HttpBody.data, auth.id,
                             HttpBody.sessionId, now)
           started == processEventStart(ce.events, id, now)
       IN /\ eventCount' = id
          /\ eventHistory' = ce.eventHistory
          /\ events' = started
          /\ calls' = Append(calls,
                [NewCall(id, "async", NoId, auth) EXCEPT
                    !.reply = [sent |-> TRUE, success |-> TRUE,
                               eventId |-> id, status |-> started[id].status,
                               response |-> Undefined, error |-> Undefined]])
    /\ UNCHANGED <<sessionVars, socketVars, now>>

\* sendEventSync (POST /api/events/sync) up to its await.
SendEventSync(auth) ==
    /\ eventCount < MaxEvents
    /\ LET id == eventCount + 1
           ce == createEvent(events, eventHistory, id, HttpBody.type,
                             HttpBody.source, HttpBody.data, auth.id,
                             HttpBody.sessionId, now)
       IN /\ eventCount' = id
          /\ eventHistory' = ce.eventHistory
          /\ events' = processEventStart(ce.events, id, now)
          /\ calls' = Append(calls, NewCall(id, "sync", NoId, auth))
    /\ UNCHANGED <<sessionVars, socketVars, now>>

\* The 15-minute interval of the server entry point.
CleanupInterval ==
    /\ SetRegistry(cleanupInactiveSessions(Registry, SessionTimeout, now))
    /\ events' = cleanup(events)
    /\ UNCHANGED <<eventHistory, eventCount, sessionCount, socketVars, calls,
                   now>>

Tick ==
    /\ now < MaxTime
    /\ now' = now + 1
    /\ UNCHANGED <<eventVars, sessionVars, socketVars, calls>>

\* Direct calls on the EventService singleton, in any order: createEvent,
\* processEvent on any event object createEvent has returned, cleanup.
ApiCreateEvent ==
    /\ eventCount < MaxEvents
    /\ LET id == eventCount + 1
           ce == createEvent(events, eventHistory, id, "chat", "api", "query",
                             Null, NoId, now)
       IN /\ eventCount' = id
          /\ eventHistory' = ce.eventHistory
          /\ events' = ce.events
    /\ UNCHANGED <<sessionVars, socketVars, calls, now>>

\* createEvent called more often than the history buffer has room.
ApiCreateBurst ==
    /\ eventCount < MaxBurst
    /\ LET id == eventCount + 1
           ce == createEvent(events, eventHistory, id, "chat", "api", "query",
                             Null, NoId, now)
       IN /\ eventCount' = id
          /\ eventHistory' = ce.eventHistory
          /\ events' = ce.events
    /\ UNCHANGED <<sessionVars, socketVars, calls, now>>

ApiProcessEvent(e) ==
    /\ e \in 1..eventCount
    /\ Len(calls) < MaxApiCalls
    /\ events' = processEventStart(events, e, now)
    /\ calls' = Append(calls, NewCall(e, "api", NoId, NoAuth))
    /\ UNCHANGED <<eventHistory, eventCount, sessionVars, socketVars, now>>

\* Faulty variant: the sweep also drops the history entries of the records
\* it purges.
ApiCleanup_TrimsHistory ==
    /\ events' = cleanup(events)
    /\ eventHistory' = SelectSeq(eventHistory,
            LAMBDA h : h.eventId \notin DOMAIN events
                          \/ h.eventId \in DOMAIN cleanup(events))
    /\ UNCHANGED <<eventCount, sessionVars, socketVars, calls, now>>

ApiCleanup ==
    /\ events' = cleanup(events)
    /\ UNCHANGED <<eventHistory, eventCount, sessionVars, socketVars, calls,
                   now>>

\* Direct calls on the SessionService singleton, in any order and with any
\* arguments: ids and handles may be unknown, ended, or used before.
ApiCreateSession(identity, socketId) ==
    /\ sessionCount < MaxSessions
    /\ LET sid == sessionCount + 1
       IN /\ SetRegistry(createSession(Registry, sid, identity.id,
                                       identity.type, socketId, now))
          /\ sessionCount' = sid
    /\ UNCHANGED <<eventVars, socketVars, calls, now>>

ApiEndSession(sessionId) ==
    /\ SetRegistry(endSession(Registry, sessionId))
    /\ UNCHANGED <<eventVars, sessionCount, socketVars, calls, now>>

ApiEndSessionBySocketId(socketId) ==
    /\ SetRegistry(endSessionBySocketId(Registry, socketId))
    /\ UNCHANGED <<eventVars, sessionCount, socketVars, calls, now>>

ApiUpdateActivity(sessionId) ==
    /\ SetRegistry(updateActivity(Registry, sessionId, now))
    /\ UNCHANGED <<eventVars, sessionCount, socketVars, calls, now>>

ApiCleanupSessions(timeoutMs) ==
    /\ SetRegistry(cleanupInactiveSessions(Registry, timeoutMs, now))
    /\ UNCHANGED <<eventVars, sessionCount, socketVars, calls, now>>

\* The timeouts passed to cleanupInactiveSessions: zero and the default.
SweepTimeouts == {0, SessionTimeout}

\* Direct calls on the BrainService singleton: processEventWithRetry(event,
\* maxRetries) with any maxRetries.  With maxRetries < 1 the loop body never
\* runs and the undefined lastError is thrown at once; otherwise the first
\* request is sent and the call awaits it.
NewRetry(limit) ==
    [origin |-> "brain", limit |-> limit,
     pc |-> IF limit >= 1 THEN "attempt" ELSE "thrown",
     attempt |-> 1, attempts |-> IF limit >= 1 THEN 1 ELSE 0,
     outcomes |-> <<>>, lastError |-> Undefined, waits |-> <<>>,
     result |-> Undefined, thrown |-> Undefined]

ApiProcessEventWithRetry(limit) ==
    /\ Len(calls) < MaxBrainCalls
    /\ calls' = Append(calls, NewRetry(limit))
    /\ UNCHANGED <<eventVars, sessionVars, socketVars, now>>

\* A request of a direct call comes back: return the success, or record
\* lastError and sleep before the next attempt, or leave the loop and throw
\* lastError.
BrainReply(c, outcome) ==
    /\ c \in 1..Len(calls)
    /\ calls[c].pc = "attempt"
    /\ LET call == calls[c]
           step == RetryStep(call.attempt, outcome, call.limit)
           err  == ClassifyError(outcome)
           seen == [call EXCEPT !.outcomes = Append(@, outcome)]
       IN calls' = [calls EXCEPT ![c] =
            IF step.next = "return"
            THEN [seen EXCEPT !.pc = "returned", !.result = BrainData]
            ELSE IF step.next = "sleep"
            THEN [seen EXCEPT !.pc = "sleep", !.lastError = err,
                              !.waits = Append(@, step.delay)]
            ELSE [seen EXCEPT !.pc = "thrown", !.lastError = err,
                              !.thrown = err]]
    /\ UNCHANGED <<eventVars, sessionVars, socketVars, now>>

\* The engine's answers offered to the dispatcher and to the event engine.
SystemOutcomes == {"ok", "ETIMEDOUT"}

\* The realtime dispatcher with its engine and the cleanup interval, within
\* one reading of the clock (every timestamp ties, so cleanup's stable sort
\* keeps the records inserted first).
Next ==
    \/ \E token \in Tokens : Connect(token)
    \/ \E s \in 1..MaxSockets, data \in Payloads : EventSend(s, data)
    \/ \E s \in 1..MaxSockets : Disconnect(s)
    \/ \E c \in 1..MaxEvents, outcome \in SystemOutcomes :
            EngineReply(c, outcome)
    \/ \E c \in 1..MaxEvents : Wake(c)
    \/ CleanupInterval

Spec == Init /\ [][Next]_vars

\* The HTTP adapters of the event controller with the engine, the durable
\* store, the cleanup interval and the clock.
NextHttp ==
    \/ \E auth \in Identities : SendEvent(auth)
    \/ \E auth \in Identities : SendEventSync(auth)
    \/ \E c \in 1..MaxEvents, outcome \in EngineOutcomes :
            EngineReply(c, outcome)
    \/ \E c \in 1..MaxEvents : Wake(c)
    \/ \E c \in 1..MaxEvents, stored \in BOOLEAN : ChatSaved(c, stored)
    \/ CleanupInterval
    \/ Tick

SpecHttp == Init /\ [][NextHttp]_vars

\* The Event Lifecycle Engine driven by arbitrary call sequences.
NextEngine ==
    \/ ApiCreateEvent
    \/ \E e \in 1..MaxEvents : ApiProcessEvent(e)
    \/ ApiCleanup
    \/ \E c \in 1..MaxApiCalls, outcome \in SystemOutcomes :
            EngineReply(c, outcome)
    \/ \E c \in 1..MaxApiCalls : Wake(c)
    \/ Tick

SpecEngine == Init /\ [][NextEngine]_vars

\* The Session Registry driven by arbitrary call sequences.
NextRegistry ==
    \/ \E identity \in Identities, h \in 1..MaxHandles :
            ApiCreateSession(identity, h)
    \/ \E id \in 1..MaxSessions : ApiEndSession(id)
    \/ \E h \in 1..MaxHandles : ApiEndSessionBySocketId(h)
    \/ \E id \in 1..MaxSessions : ApiUpdateActivity(id)
    \/ \E timeoutMs \in SweepTimeouts : ApiCleanupSessions(timeoutMs)
    \/ Tick

SpecRegistry == Init /\ [][NextRegistry]_vars

\* The realtime dispatcher's connection bookkeeping under the clock:
\* handshakes, pings, submissions up to their await, disconnects and the
\* cleanup interval.
NextLive ==
    \/ \E token \in Tokens : Connect(token)
    \/ \E s \in 1..MaxSockets : Ping(s)
    \/ \E s \in 1..MaxSockets, data \in Payloads : EventSend(s, data)
    \/ \E s \in 1..MaxSockets : Disconnect(s)
    \/ CleanupInterval
    \/ Tick

SpecLive == Init /\ [][NextLive]_vars

\* The Processor Client's retry loop driven by direct calls, the engine
\* answering each request in any of the ways the client tells apart.
NextRetry ==
    \/ \E limit \in 0..MaxRetryArg : ApiProcessEventWithRetry(limit)
    \/ \E c \in 1..MaxBrainCalls, outcome \in EngineOutcomes :
            BrainReply(c, outcome)
    \/ \E c \in 1..MaxBrainCalls : Wake(c)

SpecRetry == Init /\ [][NextRetry]_vars

\* The retry loop with long retry budgets, against an engine that answers
\* or times out.
NextBackoff ==
    \/ \E limit \in 0..MaxBackoffArg : ApiProcessEventWithRetry(limit)
    \/ \E c \in 1..MaxBrainCalls, outcome \in SystemOutcomes :
            BrainReply(c, outcome)
    \/ \E c \in 1..MaxBrainCalls : Wake(c)

SpecBackoff == Init /\ [][NextBackoff]_vars

\* The event registry and its history under bursts of createEvent, with
\* processEvent started on any of the events, the retention sweep and the
\* clock.
NextHistory ==
    \/ ApiCreateBurst
    \/ \E e \in 1..MaxBurst : ApiProcessEvent(e)
    \/ ApiCleanup
    \/ Tick

SpecHistory == Init /\ [][NextHistory]_vars

\* Sessions ending while their events are in flight: accepted handshakes,
\* pings, well-formed submissions, disconnects, the engine, the cleanup
\* interval and the clock.
SignedTokens == {token \in Tokens : token.sig = "valid"}
WellFormed   == {data \in Payloads : data # NoPayload /\ ~PayloadRejected(data)}

NextSessionEnd ==
    \/ \E token \in SignedTokens : Connect(token)
    \/ \E s \in 1..MaxSockets : Ping(s)
    \/ \E s \in 1..MaxSockets, data \in WellFormed :
            eventCount < MaxOutlive /\ EventSend(s, data)
    \/ \E s \in 1..MaxSockets : Disconnect(s)
    \/ \E c \in 1..MaxOutlive, outcome \in SystemOutcomes :
            EngineReply(c, outcome)
    \/ \E c \in 1..MaxOutlive : Wake(c)
    \/ CleanupInterval
    \/ Tick

SpecSessionEnd == Init /\ [][NextSessionEnd]_vars

\* Every entry point that submits events, side by side: the realtime
\* dispatcher and the two HTTP adapters, with the engine, the durable store
\* and the cleanup interval.
NextSubmit ==
    \/ \E token \in SignedTokens : Connect(token)
    \/ \E s \in 1..MaxSockets, data \in WellFormed : EventSend(s, data)
    \/ \E auth \in Identities : SendEvent(auth)
    \/ \E auth \in Identities : SendEventSync(auth)
    \/ \E c \in 1..MaxEvents, outcome \in SystemOutcomes :
            EngineReply(c, outcome)
    \/ \E c \in 1..MaxEvents : Wake(c)
    \/ \E c \in 1..MaxEvents, stored \in BOOLEAN : ChatSaved(c, stored)
    \/ CleanupInterval

SpecSubmit == Init /\ [][NextSubmit]_vars

----------------------------------------------------------------------------
\* Properties.

Terminal     == {"COMPLETED", "FAILED"}
ForwardSteps == {<<"PENDING", "PROCESSING">>, <<"PROCESSING", "COMPLETED">>,
                 <<"PROCESSING", "FAILED">>}

\* The number of processEvent invocations made on event e so far.
Invocations(cs, e) == Cardinality({c \in 1..Len(cs) : cs[c].eventId = e})

StatusChanged(e) ==
    e \in DOMAIN events /\ e \in DOMAIN events'
        /\ events'[e].status # events[e].status

\* C1 as stated: under any sequence of createEvent, processEvent and cleanup
\* calls, repeated and overlapping processEvent calls on one event included,
\* every status change of a record is PENDING->PROCESSING,
\* PROCESSING->COMPLETED or PROCESSING->FAILED.
C1_OnlyForwardSteps ==
    [][\A e \in 1..MaxEvents :
          StatusChanged(e) =>
              <<events[e].status, events'[e].status>> \in ForwardSteps]_vars

\* C1 amended: no status change ever leads back to PENDING, and every status
\* change of an event on which processEvent has been invoked at most once is
\* one of the three forward steps (so its terminal status is final).
C1_ForwardWhenProcessedOnce ==
    [][\A e \in 1..MaxEvents :
          StatusChanged(e) =>
              /\ events'[e].status # "PENDING"
              /\ Invocations(calls', e) <= 1 =>
                    <<events[e].status, events'[e].status>> \in ForwardSteps]_vars

\* An event processed once has completed and another one has failed.
C1_Witness ==
    /\ \E e \in DOMAIN events :
          events[e].status = "COMPLETED" /\ Invocations(calls, e) = 1
    /\ \E e \in DOMAIN events :
          events[e].status = "FAILED" /\ Invocations(calls, e) = 1

C3_RejectionLeavesFailed ==
    \A c \in 1..Len(calls) :
        /\ calls[c].settled = "rejected" =>
              /\ calls[c].statusAtSettle.status = "FAILED"
              /\ calls[c].statusAtSettle.error # Undefined
        /\ calls[c].settled # "no" =>
              calls[c].statusAtSettle.status # "PROCESSING"

\* C4: every event submitted over a connection has reached COMPLETED or FAILED
\* in the registry by the time its handler is through, whether or not the
\* submitting connection is still there.
C4_SubmittedEventsFinish ==
    \A c \in 1..Len(calls) :
        (calls[c].origin = "socket" /\ calls[c].pc = "done") =>
            calls[c].statusAtSettle.status \in Terminal

\* C5: the 202 response of sendEvent carries the new event's id and the status
\* PENDING.
C5_AcceptedAsPending ==
    \A c \in 1..Len(calls) :
        calls[c].origin = "async" =>
            /\ calls[c].reply.sent
            /\ calls[c].reply.eventId = calls[c].eventId
            /\ calls[c].reply.status = "PENDING"

OppositeType(type) == IF type = "DEVICE" THEN "USER" ELSE "DEVICE"

ResponsesFor(s, e) ==
    Cardinality({i \in 1..Len(emitted[s]) :
                    /\ emitted[s][i].name = "brain:response"
                    /\ emitted[s][i].eventId = e})

\* C6: when a realtime-submitted event completes, every connection of the
\* opposite entity type that is connected at that moment gets the
\* brain:response notice for it exactly once.
C6_PeersGetResponse ==
    \A c \in 1..Len(calls) :
        (calls[c].origin = "socket" /\ calls[c].settled = "resolved") =>
            \A s \in calls[c].connectedAtSettle :
                sockets[s].auth.type = OppositeType(calls[c].auth.type) =>
                    ResponsesFor(s, calls[c].eventId) = 1

BroadcastsOf(c) == {i \in 1..Len(broadcasts) : broadcasts[i].call = c}

\* C7: a completed realtime event gets exactly one broadcast, to the USER room
\* for a DEVICE submitter and to the DEVICE room for a USER submitter; an event
\* that has not completed gets none, and no broadcast goes to the room of the
\* submitter's own type.
C7_OneCrossBroadcast ==
    \A c \in 1..Len(calls) :
        calls[c].origin = "socket" =>
            /\ calls[c].settled = "resolved" =>
                  /\ Cardinality(BroadcastsOf(c)) = 1
                  /\ \A i \in BroadcastsOf(c) :
                        /\ broadcasts[i].room = OppositeType(calls[c].auth.type)
                        /\ broadcasts[i].eventId = calls[c].eventId
                        /\ broadcasts[i].response = calls[c].response
            /\ calls[c].settled # "resolved" => BroadcastsOf(c) = {}
            /\ \A i \in BroadcastsOf(c) :
                  broadcasts[i].room # calls[c].auth.type

\* A DEVICE submission and a USER submission have both completed.
C7_Witness ==
    /\ \E c \in 1..Len(calls) :
          calls[c].settled = "resolved" /\ calls[c].auth.type = "DEVICE"
              /\ BroadcastsOf(c) # {}
    /\ \E c \in 1..Len(calls) :
          calls[c].settled = "resolved" /\ calls[c].auth.type = "USER"
              /\ BroadcastsOf(c) # {}

\* The notices sent to the submitter for submission c, in order.
RECURSIVE NoticesOf(_, _)
NoticesOf(seq, c) ==
    IF seq = <<>> THEN <<>>
    ELSE IF Head(seq).call = c /\ Head(seq).name # "brain:response"
         THEN <<Head(seq)>> \o NoticesOf(Tail(seq), c)
         ELSE NoticesOf(Tail(seq), c)

Names(seq) == [i \in 1..Len(seq) |-> seq[i].name]

\* C8: the submitter of a well-formed event:send is sent event:received (event
\* id, PENDING), then event:processing, and, once processEvent has settled and
\* not before, exactly one terminal notice: event:completed with the engine's
\* response if it resolved, event:failed if it rejected.
C8_NoticeOrder ==
    \A c \in 1..Len(calls) :
        calls[c].origin = "socket" =>
            LET ns == NoticesOf(emitted[calls[c].socket], c)
            IN /\ Len(ns) >= 2
               /\ ns[1].name = "event:received"
               /\ ns[1].eventId = calls[c].eventId
               /\ ns[1].status = "PENDING"
               /\ ns[2].name = "event:processing"
               /\ calls[c].settled = "no" => Len(ns) = 2
               /\ calls[c].settled = "resolved" =>
                     /\ Names(ns) = <<"event:received", "event:processing",
                                      "event:completed">>
                     /\ ns[3].response = BrainData
               /\ calls[c].settled = "rejected" =>
                     Names(ns) = <<"event:received", "event:processing",
                                   "event:failed">>

\* One submission has been answered event:completed and another event:failed.
C8_Witness ==
    /\ \E c \in 1..Len(calls) :
          calls[c].origin = "socket" /\ calls[c].settled = "resolved"
    /\ \E c \in 1..Len(calls) :
          calls[c].origin = "socket" /\ calls[c].settled = "rejected"

\* A message that lacks type, source or eventData (or has no payload).
MissingField(data) ==
    \/ data = NoPayload
    \/ data.type = Undefined
    \/ data.source = Undefined
    \/ data.eventData = Undefined

\* C9: an event:send message with type, source or eventData missing is
\* answered with one event:failed notice to the submitter and changes neither
\* the event registry, the history, the session registry nor the set of
\* processEvent calls, and issues no broadcast.
C9_MalformedSendChangesNothing ==
    [][\A s \in 1..MaxSockets : \A data \in Payloads :
          (MissingField(data) /\ EventSend(s, data)) =>
              /\ UNCHANGED <<eventVars, sessionVars, calls, broadcasts,
                             connectedClients>>
              /\ Len(emitted'[s]) = Len(emitted[s]) + 1
              /\ emitted'[s][Len(emitted'[s])].name = "event:failed"
              /\ \A x \in 1..Len(emitted) :
                    x # s => emitted'[x] = emitted[x]]_vars

\* A malformed message has been answered while no event has been created.
C9_Witness ==
    /\ eventCount = 0
    /\ \E s \in 1..Len(emitted) : \E i \in 1..Len(emitted[s]) :
          emitted[s][i].error = InvalidPayloadMsg

\* C10: a connection attempt without a credential, or with one that fails
\* verification, is not accepted: it has no session in any index, no
\* connectedClients entry, no room, no handler, has been sent nothing and has
\* submitted no event.
C10_RejectedHandshakeLeavesNoTrace ==
    \A s \in 1..Len(sockets) :
        sockets[s].token.sig # "valid" =>
            /\ ~sockets[s].accepted
            /\ ~sockets[s].connected
            /\ sockets[s].rooms = {}
            /\ sockets[s].handlers = {}
            /\ s \notin DOMAIN connectedClients
            /\ s \notin DOMAIN socketSessions
            /\ \A id \in DOMAIN sessions : sessions[id].socketId # s
            /\ emitted[s] = <<>>
            /\ \A c \in 1..Len(calls) : calls[c].socket # s

\* One attempt without a token and one with a forged token have been made.
C10_Witness ==
    /\ \E s \in 1..Len(sockets) : sockets[s].token.sig = "none"
    /\ \E s \in 1..Len(sockets) : sockets[s].token.sig = "invalid"

----------------------------------------------------------------------------
\* Connection bookkeeping (SpecLive).

\* C11: an accepted handshake creates exactly one session, holding the
\* decoded id and entity type and the connection's handle; the one
\* auth:success sent to the connection carries that session's id, and the
\* connection is in the room entityType:entityId.
C11_ConnectCreatesOneSession ==
    [][(Len(sockets') = Len(sockets) + 1 /\ sockets'[Len(sockets')].accepted)
        => LET s     == Len(sockets')
               token == sockets'[s].token
               new   == DOMAIN sessions' \ DOMAIN sessions
           IN /\ Cardinality(new) = 1
              /\ \A id \in DOMAIN sessions : /\ id \in DOMAIN sessions'
                                             /\ sessions'[id] = sessions[id]
              /\ \A sid \in new :
                    /\ sessions'[sid].entityId = token.id
                    /\ sessions'[sid].entityType = token.type
                    /\ sessions'[sid].socketId = s
                    /\ getSessionBySocketId(Registry', s) = sessions'[sid]
                    /\ CountNotices(emitted'[s], "auth:success") = 1
                    /\ \A i \in 1..Len(emitted'[s]) :
                          emitted'[s][i].name = "auth:success"
                            => emitted'[s][i].sessionId = sid
              /\ (token.type \o ":" \o token.id) \in sockets'[s].rooms
      ]_vars

\* C11 witness: two handshakes of the same identity have been accepted and
\* each connection holds the auth:success of its own live session.
C11_Witness ==
    /\ Len(sockets) = 2
    /\ sockets[1].accepted /\ sockets[2].accepted
    /\ sockets[1].auth = sockets[2].auth
    /\ \A s \in 1..2 : /\ s \in DOMAIN socketSessions
                       /\ emitted[s][1].name = "auth:success"
                       /\ emitted[s][1].sessionId = socketSessions[s]
    /\ socketSessions[1] # socketSessions[2]

\* C18: when a connection submits an event that is accepted, its session's
\* lastActivity is refreshed to the current time.
C18_SubmissionRefreshesActivity ==
    [][(Len(calls') = Len(calls) + 1
            /\ calls'[Len(calls')].origin = "socket"
            /\ calls'[Len(calls')].socket \in DOMAIN socketSessions)
        => LET sid == socketSessions[calls'[Len(calls')].socket]
           IN /\ sid \in DOMAIN sessions'
              /\ sessions'[sid].lastActivity = now
      ]_vars

----------------------------------------------------------------------------
\* Session Registry properties (SpecRegistry).

Occurrences(seq, v) == Cardinality({i \in 1..Len(seq) : seq[i] = v})
Elements(seq) == {seq[i] : i \in 1..Len(seq)}
\* Ids and handles to probe with: every one in use and one never issued.
ProbeIds     == 1..(MaxSessions + 1)
ProbeHandles == 1..(MaxHandles + 1)
ProbeEntities == {i.id : i \in Identities} \cup {"nobody"}
EndedIds == (1..sessionCount) \ DOMAIN sessions

\* C12: no two live sessions share a connection handle, whatever sequence of
\* registry operations has run (createSession may be given a handle twice).
C12_OneSessionPerHandle ==
    \A a, b \in DOMAIN sessions :
        a # b => sessions[a].socketId # sessions[b].socketId

\* C13: the three indices agree: every live session is the one its handle
\* maps to and occurs exactly once in its entity's list; every by-connection
\* entry and every list element names a live session of that handle or
\* entity; no list is empty.
C13_IndicesAgree ==
    /\ \A id \in DOMAIN sessions :
        LET session == sessions[id]
        IN /\ session.socketId \in DOMAIN socketSessions
           /\ socketSessions[session.socketId] = id
           /\ session.entityId \in DOMAIN userSessions
           /\ Occurrences(userSessions[session.entityId], id) = 1
    /\ \A h \in DOMAIN socketSessions :
           /\ socketSessions[h] \in DOMAIN sessions
           /\ sessions[socketSessions[h]].socketId = h
    /\ \A e \in DOMAIN userSessions :
           /\ Len(userSessions[e]) > 0
           /\ \A i \in 1..Len(userSessions[e]) :
                 /\ userSessions[e][i] \in DOMAIN sessions
                 /\ sessions[userSessions[e][i]].entityId = e

\* C14: endSession and endSessionBySocketId are idempotent: on an id or a
\* handle the registry does not hold (ended or never known) they leave the
\* three indices as they were, and ending twice equals ending once.
C14_EndIsIdempotent ==
    /\ \A id \in ProbeIds :
        /\ id \notin DOMAIN sessions => endSession(Registry, id) = Registry
        /\ endSession(endSession(Registry, id), id) = endSession(Registry, id)
    /\ \A h \in ProbeHandles :
        /\ h \notin DOMAIN socketSessions
              => endSessionBySocketId(Registry, h) = Registry
        /\ endSessionBySocketId(endSessionBySocketId(Registry, h), h)
              = endSessionBySocketId(Registry, h)

\* C14 witness: some session has been ended while another is live under a
\* handle, and an ended id and an unmapped handle exist to be ended again.
C14_Witness ==
    /\ EndedIds # {}
    /\ DOMAIN sessions # {}
    /\ \E h \in 1..MaxHandles : h \notin DOMAIN socketSessions
    /\ \E h \in 1..MaxHandles : h \in DOMAIN socketSessions

\* C15: createSession(e, t, h) followed by the lookups returns the new
\* session with entityId e and entityType t under its id, under h and in
\* e's list; after endSession of that id none of the lookups returns it.
C15_CreateThenLookup ==
    \A identity \in Identities, h \in 1..MaxHandles :
        LET sid     == sessionCount + 1
            created == createSession(Registry, sid, identity.id,
                                     identity.type, h, now)
            found   == getSessionBySocketId(created, h)
            ended   == endSession(created, sid)
        IN /\ found.sessionId = sid
           /\ found.entityId = identity.id
           /\ found.entityType = identity.type
           /\ getSession(created, sid) = found
           /\ found \in Elements(getSessionsForEntity(created, identity.id))
           /\ getSession(ended, sid) = NullSession
           /\ getSessionBySocketId(ended, h).sessionId # sid
           /\ \A x \in Elements(getSessionsForEntity(ended, identity.id)) :
                 x.sessionId # sid

\* C15 witness: the newest session has been created on a handle an earlier
\* session also used, is found under that handle, and an earlier session
\* of the same entity has been ended.
C15_Witness ==
    /\ sessionCount \in DOMAIN sessions
    /\ getSessionBySocketId(Registry, sessions[sessionCount].socketId)
          = sessions[sessionCount]
    /\ Len(getSessionsForEntity(Registry, sessions[sessionCount].entityId)) = 2
    /\ EndedIds # {}

\* C16 as stated: after cleanupInactiveSessions(0) the registry holds no
\* session, whatever the sessions' lastActivity.
C16_ZeroTimeoutEndsAll ==
    cleanupInactiveSessions(Registry, 0, now).sessions = EmptyMap

\* C16 amended: cleanupInactiveSessions(0) ends exactly the sessions whose
\* lastActivity is earlier than the clock reading of the call; a session
\* created or refreshed at that very reading stays.
C16_ZeroTimeoutEndsOlder ==
    DOMAIN cleanupInactiveSessions(Registry, 0, now).sessions
        = {id \in DOMAIN sessions : sessions[id].lastActivity = now}

\* C16 witness: the registry holds a session older than the clock reading
\* and one touched at it, and an earlier session is already gone.
C16_Witness ==
    /\ \E id \in DOMAIN sessions : sessions[id].lastActivity < now
    /\ \E id \in DOMAIN sessions : sessions[id].lastActivity = now
    /\ EndedIds # {}

\* C17: cleanupInactiveSessions(timeoutMs) ends exactly the sessions whose
\* lastActivity predates now - timeoutMs, removes them from all three
\* indices, and leaves every other session and its index entries unchanged.
C17_SweepEndsExactlyStale ==
    \A timeoutMs \in SweepTimeouts :
        LET swept == cleanupInactiveSessions(Registry, timeoutMs, now)
            stale == {id \in DOMAIN sessions :
                        sessions[id].lastActivity < now - timeoutMs}
        IN /\ DOMAIN swept.sessions = DOMAIN sessions \ stale
           /\ \A id \in stale :
                 /\ \A h \in DOMAIN swept.socketSessions :
                        swept.socketSessions[h] # id
                 /\ \A e \in DOMAIN swept.userSessions :
                        Occurrences(swept.userSessions[e], id) = 0
           /\ \A id \in DOMAIN sessions \ stale :
                 /\ swept.sessions[id] = sessions[id]
                 /\ \A h \in DOMAIN socketSessions :
                        socketSessions[h] = id
                          => /\ h \in DOMAIN swept.socketSessions
                             /\ swept.socketSessions[h] = id
                 /\ \A e \in DOMAIN userSessions :
                        Occurrences(userSessions[e], id) > 0
                          => /\ e \in DOMAIN swept.userSessions
                             /\ Occurrences(swept.userSessions[e], id)
                                   = Occurrences(userSessions[e], id)

\* C19: a lookup with a key the registry does not hold returns not-found or
\* the empty list, and updateActivity on such an id changes no index and no
\* session's lastActivity.
C19_MissingIdIsNotFound ==
    /\ \A id \in ProbeIds :
          id \notin DOMAIN sessions
            => /\ getSession(Registry, id) = NullSession
               /\ updateActivity(Registry, id, now) = Registry
    /\ \A h \in ProbeHandles :
          h \notin DOMAIN socketSessions
            => getSessionBySocketId(Registry, h) = NullSession
    /\ \A e \in ProbeEntities :
          e \notin DOMAIN userSessions
            => getSessionsForEntity(Registry, e) = <<>>

\* C19 witness: an id has been ended, its entity has no list any more, and
\* a live session older than the clock reading is there to be disturbed.
C19_Witness ==
    /\ EndedIds # {}
    /\ \E i \in Identities : i.id \notin DOMAIN userSessions
    /\ \E id \in DOMAIN sessions : sessions[id].lastActivity < now

----------------------------------------------------------------------------
\* Processor Client properties (SpecRetry).

Failures == EngineOutcomes \ {"ok"}

\* C20: when every request of processEventWithRetry(event, n), n >= 1, fails,
\* whatever the kinds of failure, the call makes exactly n attempts and then
\* throws the error of the n-th attempt; it neither stops earlier nor goes on.
C20_ExhaustedRetriesRaiseLastError ==
    \A c \in 1..Len(calls) :
        LET call == calls[c]
        IN (call.limit >= 1
              /\ \A i \in 1..Len(call.outcomes) : call.outcomes[i] \in Failures)
           => /\ call.attempts <= call.limit
              /\ call.pc # "returned"
              /\ call.pc = "thrown" <=> Len(call.outcomes) = call.limit
              /\ call.pc = "thrown"
                    => /\ call.attempts = call.limit
                       /\ call.thrown = ClassifyError(call.outcomes[call.limit])

\* C20 witness: a call with maxRetries = 3 has thrown after three failures of
\* three different kinds.
C20_Witness ==
    \E c \in 1..Len(calls) :
        /\ calls[c].pc = "thrown"
        /\ calls[c].limit = maxRetries
        /\ calls[c].outcomes = <<"ECONNREFUSED", "ETIMEDOUT", "response">>

\* C21: processEventWithRetry returns at the first successful attempt and
\* attempts and waits no more: a success only ever is the last outcome of a
\* call that has returned, after k < maxRetries failures and exactly k + 1
\* attempts and k waits; a call that throws has made exactly maxRetries
\* attempts, all failed.
C21_ReturnsFirstSuccess ==
    \A c \in 1..Len(calls) :
        LET call == calls[c]
            n    == Len(call.outcomes)
        IN /\ \A i \in 1..n :
                 call.outcomes[i] = "ok" => i = n /\ call.pc = "returned"
           /\ call.pc = "returned"
                 => /\ n >= 1 /\ call.outcomes[n] = "ok"
                    /\ n - 1 < call.limit
                    /\ call.attempts = n
                    /\ Len(call.waits) = n - 1
                    /\ call.result = BrainData
           /\ (call.pc = "thrown" /\ call.limit >= 1)
                 => /\ call.attempts = call.limit
                    /\ n = call.limit
                    /\ \A i \in 1..n : call.outcomes[i] \in Failures

\* C21 witness: a call with maxRetries = 3 has returned on its third attempt
\* after two failures.
C21_Witness ==
    \E c \in 1..Len(calls) :
        /\ calls[c].pc = "returned"
        /\ calls[c].limit = maxRetries
        /\ calls[c].outcomes = <<"ECONNREFUSED", "other", "ok">>

----------------------------------------------------------------------------
\* Backoff properties (SpecBackoff).

\* The delays the specification lists: 1000, 2000, 4000, then 5000.
ExpectedWait(a) ==
    IF a = 1 THEN 1000 ELSE IF a = 2 THEN 2000 ELSE IF a = 3 THEN 4000
    ELSE 5000

\* C22: the wait after failed attempt a is min(1000 * 2^(a-1), 5000) ms, and
\* waits happen only between attempts: a finished call that made m attempts
\* has waited exactly m - 1 times, a sleeping one m times.
C22_BackoffBetweenAttempts ==
    \A c \in 1..Len(calls) :
        LET call == calls[c]
        IN /\ \A a \in 1..Len(call.waits) : call.waits[a] = ExpectedWait(a)
           /\ call.limit >= 1
                 => Len(call.waits) = IF call.pc = "sleep" THEN call.attempts
                                      ELSE call.attempts - 1
           /\ call.pc = "sleep" => call.attempts < call.limit

\* C22 witness: a call has failed for good after six attempts, having waited
\* 1000, 2000, 4000, 5000 and 5000 ms.
C22_Witness ==
    \E c \in 1..Len(calls) :
        /\ calls[c].pc = "thrown"
        /\ calls[c].attempts = 6
        /\ calls[c].waits = <<1000, 2000, 4000, 5000, 5000>>

----------------------------------------------------------------------------
\* Event history properties (SpecHistory).

\* C23: the history holds the most recently created events, at most
\* maxHistorySize of them, newest first: entry i is the i-th newest event.
C23_HistoryKeepsNewest ==
    /\ Len(eventHistory) = Min(eventCount, HistoryCap)
    /\ \A i \in 1..Len(eventHistory) :
          /\ eventHistory[i].eventId = eventCount - i + 1
          /\ i > 1 => eventHistory[i].timestamp <= eventHistory[i - 1].timestamp

\* C23 witness: more events than the buffer holds have been created, the
\* buffer is full, and its two newest entries carry the same timestamp.
C23_Witness ==
    /\ eventCount = MaxBurst
    /\ eventCount > HistoryCap
    /\ Len(eventHistory) = HistoryCap
    /\ eventHistory[1].timestamp = eventHistory[2].timestamp
    /\ eventHistory[1].timestamp > 0

\* C24: cleanup() keeps the RetainCap (1000) events with the latest creation
\* timestamps, untouched, and deletes every other one whatever its status;
\* at or below the cap it deletes nothing; afterwards at most RetainCap remain.
C24_CleanupKeepsNewest ==
    LET kept == cleanup(events)
        gone == DOMAIN events \ DOMAIN kept
    IN /\ Cardinality(DOMAIN kept) = Min(Cardinality(DOMAIN events), RetainCap)
       /\ DOMAIN kept \subseteq DOMAIN events
       /\ \A e \in DOMAIN kept : kept[e] = events[e]
       /\ \A k \in DOMAIN kept, d \in gone :
             events[d].timestamp <= events[k].timestamp
       /\ Cardinality(DOMAIN events) <= RetainCap => kept = events

\* C24 witness: a sweep has already purged events, the registry again holds
\* more than the cap, and an event older than the newest is PROCESSING.
C24_Witness ==
    /\ Cardinality(DOMAIN events) < eventCount
    /\ Cardinality(DOMAIN events) > RetainCap
    /\ \E a, b \in DOMAIN events :
          /\ events[a].timestamp < events[b].timestamp
          /\ events[a].status = "PROCESSING"
          /\ events[b].status = "PENDING"

----------------------------------------------------------------------------
\* Statistics.

\* C25: SessionService.getStats reports as totalSessions the number of live
\* sessions, as uniqueEntities the number of distinct entityIds with a live
\* session, and lists exactly the live sessions, each once.
C25_SessionStatsMatchRegistry ==
    LET stats == SessionService_getStats(Registry)
    IN /\ stats.totalSessions = Cardinality(DOMAIN sessions)
       /\ stats.uniqueEntities =
             Cardinality({sessions[id].entityId : id \in DOMAIN sessions})
       /\ Len(stats.sessions) = Cardinality(DOMAIN sessions)
       /\ {stats.sessions[i].sessionId : i \in 1..Len(stats.sessions)}
             = DOMAIN sessions
       /\ \A i \in 1..Len(stats.sessions) :
             LET session == sessions[stats.sessions[i].sessionId]
             IN /\ stats.sessions[i].entityId = session.entityId
                /\ stats.sessions[i].entityType = session.entityType
                /\ stats.sessions[i].lastActivity = session.lastActivity

\* C25 witness: one entity holds two live sessions while every session of
\* another entity has been ended.
C25_Witness ==
    /\ \E e \in DOMAIN userSessions : Len(userSessions[e]) = 2
    /\ \E i \in Identities : i.id \notin DOMAIN userSessions
    /\ EndedIds # {}
    /\ SessionService_getStats(Registry).uniqueEntities = 1

\* C26: EventService.getStats has total = pending + processing + completed +
\* failed with total the number of records; getHistory returns the newest
\* entries and leaves the buffer as it was; getEventStatus projects a known
\* record and returns the not-found sentinel for an unknown or purged id.
C26_EventStatsAddUp ==
    LET stats == EventService_getStats(events)
    IN /\ stats.total = Cardinality(DOMAIN events)
       /\ stats.total = stats.pending + stats.processing + stats.completed
                          + stats.failed
       /\ \A limit \in 0..(HistoryCap + 1) :
             /\ getHistory(eventHistory, limit).eventHistory = eventHistory
             /\ Len(getHistory(eventHistory, limit).result)
                   = Min(limit, Len(eventHistory))
       /\ \A id \in 1..(MaxEvents + 1) :
             IF id \in DOMAIN events
             THEN getEventStatus(events, id).status = events[id].status
             ELSE getEventStatus(events, id) = NotFound

\* C26 witness: one event has been purged by a sweep and the remaining one
\* has finished, with both still in the history.
C26_Witness ==
    /\ eventCount = 2
    /\ Cardinality(DOMAIN events) = 1
    /\ \E e \in DOMAIN events : events[e].status \in Terminal
    /\ Len(eventHistory) = 2

----------------------------------------------------------------------------
\* HTTP adapter properties (SpecHttp).

ClassifiedErrors == {ClassifyError(o) : o \in Failures}
SyncCalls  == {c \in 1..Len(calls) : calls[c].origin = "sync"}
AsyncCalls == {c \in 1..Len(calls) : calls[c].origin = "async"}

\* C27: sendEventSync responds only once processEvent has settled; a success
\* response carries COMPLETED and the engine's response; a failure response
\* carries the classified engine error while the record is FAILED with that
\* error; no response is produced while the event is PENDING or PROCESSING.
C27_SyncRespondsAfterSettle ==
    \A c \in SyncCalls :
        LET call == calls[c]
        IN call.reply.sent
           => /\ call.settled # "no"
              /\ call.statusAtSettle.status \notin {"PENDING", "PROCESSING"}
              /\ call.reply.success
                    => /\ call.reply.status = "COMPLETED"
                       /\ call.reply.response = BrainData
                       /\ call.statusAtSettle.status = "COMPLETED"
              /\ ~call.reply.success
                    => /\ call.reply.error \in ClassifiedErrors
                       /\ call.reply.error = call.lastError
                       /\ call.statusAtSettle.status = "FAILED"
                       /\ call.statusAtSettle.error = call.reply.error

\* C28: when the durable store fails while the transcript of a completed
\* synchronous event is saved, the caller still gets the success response
\* with the completed result, and the event record, as long as it is
\* retained, stays COMPLETED with its response.
C28_StoreFailureKeepsSuccess ==
    \A c \in SyncCalls :
        LET call == calls[c]
        IN call.chat = "failed"
           => /\ call.reply.sent /\ call.reply.success
              /\ call.reply.eventId = call.eventId
              /\ call.reply.status = "COMPLETED"
              /\ call.reply.response = BrainData
              /\ call.reply.error = Undefined
              /\ call.eventId \in DOMAIN events
                    => /\ events[call.eventId].status = "COMPLETED"
                       /\ events[call.eventId].response = BrainData
                       /\ events[call.eventId].error = Undefined

\* C28 witness: the store has failed for one synchronous submission and
\* worked for another, and both have been answered.
C28_Witness ==
    /\ \E c \in SyncCalls : calls[c].chat = "failed" /\ calls[c].reply.sent
                             /\ calls[c].eventId \in DOMAIN events
    /\ \E c \in SyncCalls : calls[c].chat = "saved" /\ calls[c].reply.sent

----------------------------------------------------------------------------
\* Disconnection (SpecLive).

AcceptedSockets == {s \in 1..Len(sockets) : sockets[s].accepted}

\* No index of the registry knows a session of the connection handle.
NoSessionFor(reg, socketId) ==
    /\ socketId \notin DOMAIN reg.socketSessions
    /\ \A id \in DOMAIN reg.sessions : reg.sessions[id].socketId # socketId
    /\ \A k \in DOMAIN reg.userSessions :
          \A id \in Elements(reg.userSessions[k]) :
              /\ id \in DOMAIN reg.sessions
              /\ reg.sessions[id].socketId # socketId

\* C30: in every reachable state, handleDisconnection for any accepted
\* connection (still in session, already swept, or already disconnected)
\* leaves no session of that handle in any index and no connectedClients
\* entry, keeps the sessions of the other connections, and handling it a
\* second time changes nothing; a connection whose disconnect has been
\* handled has no session and no connectedClients entry.
C30_DisconnectLeavesNothing ==
    \A s \in AcceptedSockets :
        LET once  == handleDisconnection(Registry, connectedClients, s)
            twice == handleDisconnection(once.reg, once.connectedClients, s)
        IN /\ NoSessionFor(once.reg, s)
           /\ s \notin DOMAIN once.connectedClients
           /\ twice = once
           /\ \A id \in DOMAIN sessions :
                 sessions[id].socketId # s
                   => /\ id \in DOMAIN once.reg.sessions
                      /\ once.reg.sessions[id] = sessions[id]
           /\ DOMAIN once.connectedClients = DOMAIN connectedClients \ {s}
           /\ ~sockets[s].connected
                 => /\ NoSessionFor(Registry, s)
                    /\ s \notin DOMAIN connectedClients

\* C30 witness: one connection has been disconnected while another, still
\* connected and in connectedClients, has already lost its session to the
\* inactivity sweep.
C30_Witness ==
    /\ \E s \in AcceptedSockets : ~sockets[s].connected
    /\ \E s \in AcceptedSockets :
          /\ sockets[s].connected
          /\ s \notin DOMAIN socketSessions
          /\ s \in DOMAIN connectedClients

----------------------------------------------------------------------------
\* Events and the sessions they were submitted under (SpecSessionEnd).

SocketCalls == {c \in 1..Len(calls) : calls[c].origin = "socket"}
\* The session handleConnection created for socket s (named in auth:success).
SessionOf(s) == emitted[s][1].sessionId
EndedNow == DOMAIN sessions \ DOMAIN sessions'

\* Every submitted event is in the registry and in the history, correlated
\* to the session of its connection or to none, and once its processEvent
\* call has settled it is COMPLETED or FAILED as the call settled.
EventsOutliveSessions ==
    \A c \in SocketCalls :
        LET call == calls[c]
            e == call.eventId
        IN /\ e \in DOMAIN events
           /\ \E i \in 1..Len(eventHistory) : eventHistory[i].eventId = e
           /\ events[e].sessionId \in {NoId, SessionOf(call.socket)}
           /\ call.settled = "no" => events[e].status = "PROCESSING"
           /\ call.settled = "resolved"
                 => events[e].status = "COMPLETED"
                    /\ events[e].response = BrainData
           /\ call.settled = "rejected"
                 => events[e].status = "FAILED"
                    /\ events[e].error = call.error

\* C31: a step that ends a session (disconnect or the inactivity sweep)
\* leaves the event registry and the history as they were; no step changes
\* the sessionId of an event; and every event stays in the registry and
\* goes on to COMPLETED or FAILED whether or not its session still exists.
C31_EventsOutliveSessions ==
    [][ /\ EndedNow # {}
            => events' = events /\ eventHistory' = eventHistory
        /\ \A e \in DOMAIN events :
              /\ e \in DOMAIN events'
              /\ events'[e].sessionId = events[e].sessionId
        /\ EventsOutliveSessions' ]_vars

\* C31 witness: an event submitted under a session has completed after its
\* connection was gone and the session ended, and still names that session.
C31_Witness ==
    \E c \in SocketCalls :
        LET call == calls[c]
            e == call.eventId
        IN /\ call.settled = "resolved"
           /\ call.socket \notin call.connectedAtSettle
           /\ e \in DOMAIN events
           /\ events[e].status = "COMPLETED"
           /\ events[e].sessionId = SessionOf(call.socket)
           /\ events[e].sessionId \notin DOMAIN sessions

\* Connections that are still open but have no session any more.
Sessionless == {s \in 1..Len(sockets) :
                    sockets[s].connected /\ s \notin DOMAIN socketSessions}
IsPong(n) == n.name = "pong"

\* C32: a well-formed submission is never refused; the event it creates is
\* PROCESSING with the acknowledgements sent, carries the id of the
\* connection's session if there is one and null if there is none, and the
\* step leaves the session registry alone; sessions are created by accepted
\* handshakes only, so a connection that lost its session never gets one
\* back; a ping is answered with pong and without a session changes nothing
\* else; a sessionless submission gets its terminal notice like any other.
C32_SessionlessSubmissionProceeds ==
    [][ /\ \A s \in 1..Len(sockets) :
              s \notin DOMAIN socketSessions
                => /\ s \notin DOMAIN socketSessions'
                   /\ \A id \in DOMAIN sessions' :
                         sessions'[id].socketId # s
        /\ sessionCount' = Cardinality(AcceptedSockets')
        /\ TotalRejected' = 0
        /\ eventCount' # eventCount
              => LET e == eventCount'
                     c == Len(calls')
                     s == calls'[c].socket
                     n == Len(emitted'[s])
                 IN /\ e = eventCount + 1 /\ c = Len(calls) + 1
                    /\ calls'[c].eventId = e
                    /\ events'[e].status = "PROCESSING"
                    /\ events'[e].sessionId =
                          IF s \in DOMAIN socketSessions
                          THEN socketSessions[s] ELSE NoId
                    /\ n = Len(emitted[s]) + 2
                    /\ emitted'[s][n - 1].name = "event:received"
                    /\ emitted'[s][n - 1].eventId = e
                    /\ emitted'[s][n].name = "event:processing"
                    /\ Registry' = Registry
        /\ \A s \in Sessionless :
              (Len(emitted'[s]) = Len(emitted[s]) + 1
                    /\ IsPong(emitted'[s][Len(emitted'[s])]))
                => /\ Registry' = Registry
                   /\ events' = events /\ calls' = calls
        /\ \A c \in SocketCalls :
              LET call == calls'[c]
                  ns == NoticesOf(emitted'[call.socket], c)
              IN (events'[call.eventId].sessionId = NoId
                        /\ call.settled # "no")
                   => /\ Len(ns) = 3
                      /\ ns[3].name = IF call.settled = "resolved"
                                      THEN "event:completed"
                                      ELSE "event:failed"
                      /\ events'[call.eventId].status
                            = IF call.settled = "resolved"
                              THEN "COMPLETED" ELSE "FAILED"
                      /\ call.settled = "resolved"
                            => Cardinality(BroadcastsOf(c)') = 1 ]_vars

\* C32 witness: a connection whose session the sweep has ended submitted an
\* event that carries no sessionId and has completed, was sent pong after
\* that submission, is still open and still has no session.
C32_Witness ==
    \E c \in SocketCalls :
        LET call == calls[c]
            s == call.socket
        IN /\ s \in Sessionless
           /\ call.eventId \in DOMAIN events
           /\ events[call.eventId].sessionId = NoId
           /\ events[call.eventId].status = "COMPLETED"
           /\ \E i, j \in 1..Len(emitted[s]) :
                 /\ i < j
                 /\ emitted[s][i].name = "event:received"
                 /\ emitted[s][i].call = c
                 /\ IsPong(emitted[s][j])

----------------------------------------------------------------------------
\* Overlapping processEvent calls (SpecEngine).

SettlesNow(c) ==
    c \in 1..Len(calls) /\ calls[c].settled = "no" /\ calls'[c].settled # "no"

\* C33: processEvent is started on an event whatever its status and whatever
\* other calls are in flight, and sets it PROCESSING; every step advances
\* one call only, so each runs its own retry cycle; a call is rejected only
\* after its own three failed attempts (or because the record was purged);
\* and a call that settles writes its own outcome on the shared record over
\* whatever the record held, so the last call to settle decides the status.
C33_LastWriterWins ==
    [][ \A c \in 1..Len(calls') :
          LET e == calls'[c].eventId
              after == calls'[c]
          IN /\ c > Len(calls)
                  => /\ after.pc = "attempt" /\ after.attempt = 1
                     /\ e \in DOMAIN events
                           => events'[e].status = "PROCESSING"
             /\ (c <= Len(calls) /\ calls'[c] # calls[c])
                  => \A d \in 1..Len(calls) : d # c => calls'[d] = calls[d]
             /\ SettlesNow(c)
                  => /\ e \in DOMAIN events
                           => /\ e \in DOMAIN events'
                              /\ after.settled = "resolved"
                                    => /\ events'[e].status = "COMPLETED"
                                       /\ events'[e].response = BrainData
                              /\ after.settled = "rejected"
                                    => /\ events'[e].status = "FAILED"
                                       /\ events'[e].error = after.error
                                       /\ after.error = after.lastError
                                       /\ after.attempts = maxRetries
                     /\ e \notin DOMAIN events
                           => after.settled = "rejected"
                              /\ after.error = TypeErrorMsg ]_vars

\* C33 witness: of two calls on one event the first was started first and
\* settled last: the second failed and left its error on the record, then
\* the first completed and the record is COMPLETED.
C33_Witness ==
    \E c1, c2 \in 1..Len(calls) :
        LET e == calls[c1].eventId
        IN /\ c1 < c2
           /\ calls[c2].eventId = e
           /\ calls[c1].settled = "resolved"
           /\ calls[c2].settled = "rejected"
           /\ calls[c2].attempts = maxRetries
           /\ e \in DOMAIN events
           /\ events[e].status = "COMPLETED"
           /\ events[e].error = calls[c2].error
           /\ events[e].response = BrainData

----------------------------------------------------------------------------
\* Failure notices of the realtime dispatcher (Spec).

FailedNotices(c) ==
    LET ns == NoticesOf(emitted[calls[c].socket], c)
    IN {i \in 1..Len(ns) : ns[i].name = "event:failed"}

\* C34: a realtime submission whose processing failed with the retries used
\* up has been sent exactly one event:failed notice, whose error text is the
\* error message on the event record, no event:completed notice, and no
\* brain:response broadcast has been issued for it.
C34_FailedNoticeCarriesRecordedError ==
    \A c \in SocketCalls :
        LET call == calls[c]
            ns == NoticesOf(emitted[call.socket], c)
        IN (call.settled = "rejected" /\ call.attempts = maxRetries)
             => /\ Cardinality(FailedNotices(c)) = 1
                /\ \A i \in FailedNotices(c) :
                      /\ ns[i].error = call.statusAtSettle.error
                      /\ ns[i].error \in ClassifiedErrors
                /\ call.statusAtSettle.status = "FAILED"
                /\ \A i \in 1..Len(ns) : ns[i].name # "event:completed"
                /\ BroadcastsOf(c) = {}

----------------------------------------------------------------------------
\* Identity of event records (SpecEngine).

\* The fields of a record that are set at creation.
Identity(ev) == [eventId |-> ev.eventId, type |-> ev.type,
                 source |-> ev.source, data |-> ev.data,
                 sessionId |-> ev.sessionId, createdBy |-> ev.createdBy]
HistoryIds == {eventHistory[i].eventId : i \in 1..Len(eventHistory)}

\* C35: a step that creates an event issues an id no earlier event had,
\* and the record is in the registry under that id, PENDING, in the same
\* step; records enter the registry in no other way; and every step
\* (processEvent starting or settling, cleanup, the clock) leaves eventId,
\* type, source, data, sessionId and createdBy of every retained record as
\* they were.
C35_CreatedPendingAndImmutable ==
    [][ /\ eventCount' # eventCount
              => LET e == eventCount'
                 IN /\ e \notin 1..eventCount
                    /\ e \notin DOMAIN events /\ e \notin HistoryIds
                    /\ \A c \in 1..Len(calls) : calls[c].eventId # e
                    /\ e \in DOMAIN events'
                    /\ events'[e].status = "PENDING"
                    /\ events'[e].response = Undefined
                    /\ events'[e].error = Undefined
                    /\ eventHistory'[1].eventId = e
        /\ \A e \in DOMAIN events' :
              /\ events'[e].eventId = e
              /\ e \in 1..eventCount'
              /\ e \notin DOMAIN events => eventCount' # eventCount
              /\ e \in DOMAIN events
                    => Identity(events'[e]) = Identity(events[e])
        /\ \A e \in DOMAIN events :
              getEventStatus(events, e).eventId = e ]_vars

\* C35 witness: two events were created, the retention sweep has purged
\* one, and the other has been processed to COMPLETED with the payload it
\* was created with.
C35_Witness ==
    /\ eventCount = MaxEvents
    /\ (1..eventCount) \ DOMAIN events # {}
    /\ \E e \in DOMAIN events :
          /\ events[e].status = "COMPLETED"
          /\ events[e].data = "query"
          /\ e \in HistoryIds

----------------------------------------------------------------------------
\* Several sessions of one entity (SpecRegistry).

\* What is left of the registry for the sessions other than `ended`.
OthersKept(after, ended) ==
    /\ DOMAIN after.sessions = DOMAIN sessions \ {ended}
    /\ \A o \in DOMAIN sessions \ {ended} :
          /\ after.sessions[o] = sessions[o]
          /\ \A h \in DOMAIN socketSessions :
                socketSessions[h] = o
                  => /\ h \in DOMAIN after.socketSessions
                     /\ after.socketSessions[h] = o
    /\ \A k \in DOMAIN userSessions :
          LET rest == SelectSeq(userSessions[k], LAMBDA x : x # ended)
          IN IF rest = <<>> THEN k \notin DOMAIN after.userSessions
             ELSE /\ k \in DOMAIN after.userSessions
                  /\ after.userSessions[k] = rest

\* C36: in every registry state, ending one session of an entity by
\* endSession, by endSessionBySocketId on its handle, or by a sweep for
\* which it alone is stale, removes that session only: every other session
\* keeps its record, its by-connection entry and its place in the entity's
\* list, in the order it had.
C36_EndingOneKeepsOthers ==
    \A id \in DOMAIN sessions :
        /\ OthersKept(endSession(Registry, id), id)
        /\ \A h \in DOMAIN socketSessions :
              socketSessions[h] = id
                => OthersKept(endSessionBySocketId(Registry, h), id)
        /\ \A timeoutMs \in SweepTimeouts :
              {x \in DOMAIN sessions :
                    now - sessions[x].lastActivity > timeoutMs} = {id}
                => OthersKept(cleanupInactiveSessions(Registry, timeoutMs,
                                                      now), id)

----------------------------------------------------------------------------
\* One processEvent call per submitted event (SpecSubmit).

InFlight(e) == {c \in 1..Len(calls) :
                    calls[c].eventId = e /\ calls[c].settled = "no"}

\* C37: with events submitted through handleEventSend, sendEvent and
\* sendEventSync, a step starts a processEvent call if and only if it
\* creates an event, and the call is on that event and belongs to the
\* request that created it; so every event ever created has exactly one
\* processEvent call and never two in flight.
C37_OneCallPerEvent ==
    [][ /\ Len(calls') # Len(calls) \/ eventCount' # eventCount
              => /\ Len(calls') = Len(calls) + 1
                 /\ eventCount' = eventCount + 1
                 /\ calls'[Len(calls')].eventId = eventCount'
                 /\ eventCount' \notin DOMAIN events
                 /\ events'[eventCount'].createdBy
                        = calls'[Len(calls')].auth.id
        /\ \A e \in 1..eventCount' :
              /\ Invocations(calls', e) = 1
              /\ Cardinality(InFlight(e)') <= 1
        /\ \A c \in 1..Len(calls') : calls'[c].eventId \in 1..eventCount' ]_vars

\* C37 witness: a realtime submission and an HTTP submission are both
\* awaiting the engine, each with its own event.
C37_Witness ==
    \E c1, c2 \in 1..Len(calls) :
        /\ calls[c1].origin = "socket"
        /\ calls[c2].origin \in {"async", "sync"}
        /\ calls[c1].settled = "no" /\ calls[c2].settled = "no"
        /\ calls[c1].eventId # calls[c2].eventId

----------------------------------------------------------------------------
\* The history against the registry (SpecEngine, SpecHistory).

HistoryLimits == 0..(HistoryCap + 1)

\* C38: whatever limit getHistory is called with, every entry it returns
\* has status PENDING and the type, source and timestamp its event was
\* created with, whatever status the registry record has by now and
\* whether or not the record is still retained.
C38_HistoryStaysPending ==
    \A limit \in HistoryLimits :
        LET view == getHistory(eventHistory, limit).result
        IN \A i \in 1..Len(view) :
              /\ view[i].status = "PENDING"
              /\ view[i] = eventHistory[i]
              /\ view[i].eventId \in DOMAIN events
                    => /\ view[i].type = events[view[i].eventId].type
                       /\ view[i].source = events[view[i].eventId].source
                       /\ view[i].timestamp
                             = events[view[i].eventId].timestamp

\* C38 witness: the history lists one event whose record is COMPLETED and
\* another whose record is FAILED.
C38_Witness ==
    \E i, j \in 1..Len(eventHistory) :
        /\ eventHistory[i].eventId \in DOMAIN events
        /\ eventHistory[j].eventId \in DOMAIN events
        /\ events[eventHistory[i].eventId].status = "COMPLETED"
        /\ events[eventHistory[j].eventId].status = "FAILED"

----------------------------------------------------------------------------
\* A record purged while its processEvent call is suspended (Spec).

\* C39: when the engine call of a realtime submission settles and the
\* event's record has been purged meanwhile, processEvent rejects, whatever
\* the engine answered; the step leaves the registry as it was, sends the
\* submitter one event:failed notice with the rejection's message and
\* issues no broadcast; and a record enters the registry only in the step
\* that creates its event, so a purged record never comes back.
C39_PurgedInFlightRejects ==
    [][ /\ \A c \in SocketCalls :
              (SettlesNow(c) /\ calls[c].eventId \notin DOMAIN events)
                => LET s == calls[c].socket
                       n == Len(emitted'[s])
                   IN /\ calls'[c].settled = "rejected"
                      /\ calls'[c].error = TypeErrorMsg
                      /\ calls'[c].response = Undefined
                      /\ events' = events
                      /\ n = Len(emitted[s]) + 1
                      /\ emitted'[s][n].name = "event:failed"
                      /\ emitted'[s][n].error = calls'[c].error
                      /\ \A x \in 1..Len(emitted) :
                            x # s => emitted'[x] = emitted[x]
                      /\ broadcasts' = broadcasts
        /\ \A e \in DOMAIN events' \ DOMAIN events :
              e = eventCount' /\ eventCount' = eventCount + 1
        /\ \A c \in SocketCalls :
              (calls[c].settled # "no"
                    /\ calls[c].statusAtSettle = NotFound)
                => /\ calls[c].eventId \notin DOMAIN events'
                   /\ \A i \in 1..Len(emitted'[calls[c].socket]) :
                         emitted'[calls[c].socket][i].call = c
                           => emitted'[calls[c].socket][i].name
                                 # "event:completed"
                   /\ BroadcastsOf(c)' = {} ]_vars

\* C39 witness: the engine answered the first attempt with success, and the
\* call was rejected all the same: its record had been purged, the
\* submitter has one event:failed and there is no broadcast for the event.
C39_Witness ==
    \E c \in SocketCalls :
        /\ calls[c].settled = "rejected"
        /\ calls[c].attempts = 1
        /\ calls[c].lastError = Undefined
        /\ calls[c].error = TypeErrorMsg
        /\ calls[c].eventId \notin DOMAIN events
        /\ Cardinality(FailedNotices(c)) = 1
        /\ BroadcastsOf(c) = {}

\* C40: a step in which the retention sweep purges records leaves the
\* history buffer exactly as it was; a step that creates an event, and may
\* trim the history, adds the new record and removes or changes no other
\* record of the registry; in no step does the history lose an entry other
\* than by that trim.
C40_SweepAndTrimAreSeparate ==
    [][ /\ DOMAIN events \ DOMAIN events' # {}
              => /\ eventHistory' = eventHistory
                 /\ events' = cleanup(events)
                 /\ \A limit \in HistoryLimits :
                       getHistory(eventHistory', limit).result
                          = getHistory(eventHistory, limit).result
        /\ eventCount' # eventCount
              => /\ DOMAIN events' = DOMAIN events \cup {eventCount'}
                 /\ \A e \in DOMAIN events : events'[e] = events[e]
                 /\ eventHistory' = addToHistory(eventHistory,
                                                 events'[eventCount'])
        /\ eventCount' = eventCount => eventHistory' = eventHistory ]_vars

\* C40 witness: after bursts of createEvent and a sweep, getHistory lists
\* an event for which getEventStatus returns not found, while the registry
\* holds a record whose entry the history has trimmed away.
C40_Witness ==
    /\ \E i \in 1..Len(getHistory(eventHistory, HistoryCap).result) :
          getEventStatus(events,
              getHistory(eventHistory, HistoryCap).result[i].eventId)
            = NotFound
    /\ \E e \in DOMAIN events : e \notin HistoryIds
    /\ Len(eventHistory) = HistoryCap

====
